---- MODULE Spec2Model ----
(***************************************************************************)
(* Model of the JSX class-region scanner of a11y-audit (native/src/parser): *)
(* the tokenizer's events, the context tracker, the annotation parser, the  *)
(* inherited text-colour tracker, the region builder and the orchestrator   *)
(* that sequences them.                                                     *)
(*                                                                          *)
(* Text is a sequence of one-character strings (the bytes of the source).   *)
(* Offsets are 0-based as in the Rust code: At(b, i) is bytes[i] and        *)
(* Slice(s, a, b) is &s[a..b].  An Option<T> is None or Some(v).            *)
(***************************************************************************)
EXTENDS Integers, Sequences, FiniteSets, TLC

\* ------------------------------------------------------------------ options

None == [some |-> FALSE]
Some(v) == [some |-> TRUE, val |-> v]
IsSome(o) == o.some
IsNone(o) == ~o.some
UnwrapOr(o, d) == IF o.some THEN o.val ELSE d

\* ------------------------------------------------------------------ bytes

BQ == "BQ"
At(bytes, i) == bytes[i + 1]
Slice(s, a, b) == SubSeq(s, a + 1, b)

Lower == {"a","b","c","d","e","f","g","h","i","j","k","l","m",
          "n","o","p","q","r","s","t","u","v","w","x","y","z"}
Upper == {"A","B","C","D","E","F","G","H","I","J","K","L","M",
          "N","O","P","Q","R","S","T","U","V","W","X","Y","Z"}
Digit == {"0","1","2","3","4","5","6","7","8","9"}

is_ascii_alphabetic(ch) == ch \in Lower \cup Upper
is_ascii_digit(ch) == ch \in Digit
is_ascii_alphanumeric(ch) == is_ascii_alphabetic(ch) \/ is_ascii_digit(ch)
is_ascii_whitespace(ch) == ch \in {" ", "\t", "\n", "\f", "\r"}

\* str::starts_with / strip_prefix on byte sequences
starts_with(s, prefix) ==
    /\ Len(prefix) <= Len(s)
    /\ SubSeq(s, 1, Len(prefix)) = prefix
strip_prefix(s, prefix) ==
    IF starts_with(s, prefix) THEN Some(SubSeq(s, Len(prefix) + 1, Len(s))) ELSE None

\* tokenizer.rs starts_with_at: bounds-checked prefix test at offset `at`
starts_with_at(bytes, at, prefix) ==
    IF at + Len(prefix) > Len(bytes) THEN FALSE
    ELSE Slice(bytes, at, at + Len(prefix)) = prefix

\* str::trim: drop leading and trailing whitespace
RECURSIVE trim_start(_)
trim_start(s) ==
    IF s /= <<>> /\ is_ascii_whitespace(Head(s)) THEN trim_start(Tail(s)) ELSE s
RECURSIVE trim_end(_)
trim_end(s) ==
    IF s /= <<>> /\ is_ascii_whitespace(s[Len(s)])
    THEN trim_end(SubSeq(s, 1, Len(s) - 1)) ELSE s
trim(s) == trim_end(trim_start(s))

\* str::split_whitespace: the maximal runs of non-whitespace, in order
RECURSIVE split_ws_from(_, _, _)
split_ws_from(s, i, cur) ==
    IF i >= Len(s) THEN (IF cur = <<>> THEN <<>> ELSE <<cur>>)
    ELSE IF is_ascii_whitespace(At(s, i))
         THEN (IF cur = <<>> THEN <<>> ELSE <<cur>>) \o split_ws_from(s, i + 1, <<>>)
         ELSE split_ws_from(s, i + 1, Append(cur, At(s, i)))
split_whitespace(s) == split_ws_from(s, 0, <<>>)

\* str::find: offset of the first occurrence of pat in s, or None
RECURSIVE find_from(_, _, _)
find_from(s, pat, i) ==
    IF i + Len(pat) > Len(s) THEN None
    ELSE IF Slice(s, i, i + Len(pat)) = pat THEN Some(i)
    ELSE find_from(s, pat, i + 1)
str_find(s, pat) == find_from(s, pat, 0)

\* ------------------------------------------------------------------ literals

S_bg_dash == <<"b","g","-">>
S_bg_linear == <<"b","g","-","l","i","n","e","a","r","-">>
S_bg_gradient == <<"b","g","-","g","r","a","d","i","e","n","t","-">>
S_opacity_dash == <<"o","p","a","c","i","t","y","-">>
S_text_dash == <<"t","e","x","t","-">>
S_text_opacity == <<"t","e","x","t","-","o","p","a","c","i","t","y","-">>
S_annotation_prefix == <<"_","a","n","n","o","t","a","t","i","o","n","_">>
S_block_prefix == <<"@","a","1","1","y","-","c","o","n","t","e","x","t","-","b","l","o","c","k">>
S_context_prefix == <<"@","a","1","1","y","-","c","o","n","t","e","x","t">>
S_ignore_prefix == <<"a","1","1","y","-","i","g","n","o","r","e">>
S_bg_colon == <<"b","g",":">>
S_fg_colon == <<"f","g",":">>
S_no_inherit == <<"n","o","-","i","n","h","e","r","i","t">>
S_suppressed == <<"s","u","p","p","r","e","s","s","e","d">>
S_disabled_reason == <<"d","i","s","a","b","l","e","d"," ","e","l","e","m","e","n","t"," ","(","W","C","A","G"," ","S","C"," ","1",".","4",".","3"," ","e","x","e","m","p","t","i","o","n",")">>
S_disabled == <<"d","i","s","a","b","l","e","d">>
S_disabled_colon == <<"d","i","s","a","b","l","e","d",":">>
S_aria_dash == <<"a","r","i","a","-">>
S_aria_disabled == <<"a","r","i","a","-","d","i","s","a","b","l","e","d">>
S_className_eq == <<"c","l","a","s","s","N","a","m","e","=">>

BG_NON_COLOR == {<<"b","g","-","c","l","i","p","-","t","e","x","t">>, <<"b","g","-","n","o","-","r","e","p","e","a","t">>, <<"b","g","-","c","o","v","e","r">>, <<"b","g","-","c","o","n","t","a","i","n">>,
                 <<"b","g","-","f","i","x","e","d">>, <<"b","g","-","l","o","c","a","l">>, <<"b","g","-","s","c","r","o","l","l">>}

\* ------------------------------------------------------------------ configuration

\* The container map and default background handed to scan_file.
TagCard == <<"C">>
BgCard == <<"b","g","-","c">>
DefaultBg == <<"b","g","-","b","a","c","k","g","r","o","u","n","d">>
container_config == [n \in {TagCard} |-> BgCard]

\* ------------------------------------------------------------------ class tokens

\* The delimiter tests shared by the raw-tag scans: the byte before a utility
\* must be whitespace, a quote, a back-quote, '(' or ','.
is_delim_before(ch) ==
    is_ascii_whitespace(ch) \/ ch \in {"\"", "'", BQ, "(", ","}

\* End offset of the class token starting at i: it runs to the next
\* whitespace, quote, back-quote, ')' or ','.
RECURSIVE class_token_end(_, _)
class_token_end(bytes, i) ==
    IF i < Len(bytes)
       /\ ~is_ascii_whitespace(At(bytes, i))
       /\ At(bytes, i) \notin {"\"", "'", BQ, ")", ","}
    THEN class_token_end(bytes, i + 1)
    ELSE i

\* context_tracker.rs: first explicit bg-* colour class of a raw tag
RECURSIVE find_explicit_bg_from(_, _)
find_explicit_bg_from(raw_tag, i) ==
    LET len == Len(raw_tag) IN
    IF ~(i < len) THEN None
    ELSE IF i + 3 < len /\ At(raw_tag, i) = "b" /\ At(raw_tag, i + 1) = "g"
            /\ At(raw_tag, i + 2) = "-"
    THEN IF i > 0 /\ At(raw_tag, i - 1) = ":" THEN find_explicit_bg_from(raw_tag, i + 1)
         ELSE IF i > 0 /\ ~is_delim_before(At(raw_tag, i - 1))
         THEN find_explicit_bg_from(raw_tag, i + 1)
         ELSE LET e == class_token_end(raw_tag, i)
                  cls == Slice(raw_tag, i, e)
              IN IF starts_with(cls, S_bg_linear) \/ starts_with(cls, S_bg_gradient)
                    \/ cls \in BG_NON_COLOR
                 THEN find_explicit_bg_from(raw_tag, e)
                 ELSE Some(cls)
    ELSE find_explicit_bg_from(raw_tag, i + 1)
find_explicit_bg_in_raw_tag(raw_tag) == find_explicit_bg_from(raw_tag, 0)

\* ------------------------------------------------------------------ opacity

\* An f32 opacity is held in fixed point: Scale stands for 1.0.
Scale == 10000

DigitVal(ch) ==
    CASE ch = "0" -> 0 [] ch = "1" -> 1 [] ch = "2" -> 2 [] ch = "3" -> 3
      [] ch = "4" -> 4 [] ch = "5" -> 5 [] ch = "6" -> 6 [] ch = "7" -> 7
      [] ch = "8" -> 8 [] ch = "9" -> 9

AllDigits(s) == \A k \in 1..Len(s) : is_ascii_digit(s[k])

RECURSIVE strip_zeros(_)
strip_zeros(s) == IF s /= <<>> /\ Head(s) = "0" THEN strip_zeros(Tail(s)) ELSE s

RECURSIVE digits_value(_)
digits_value(s) ==
    IF s = <<>> THEN 0 ELSE 10 * digits_value(SubSeq(s, 1, Len(s) - 1)) + DigitVal(s[Len(s)])

\* str::parse::<u32>: an optional '+' and at least one digit.  A value of
\* ten digits or more is reported as Some(1000000000): the caller only
\* compares it with 100.
parse_u32(s) ==
    LET body == IF s /= <<>> /\ Head(s) = "+" THEN Tail(s) ELSE s
        sig == strip_zeros(body)
    IN IF body = <<>> \/ ~AllDigits(body) THEN None
       ELSE IF Len(sig) > 9 THEN Some(1000000000)
       ELSE Some(digits_value(sig))

\* The fraction digits of a decimal literal, in fixed point (four places).
frac_value(s) ==
    LET d == [k \in 1..4 |-> IF k <= Len(s) THEN DigitVal(s[k]) ELSE 0]
    IN (d[1] * 1000 + d[2] * 100 + d[3] * 10 + d[4]) * (Scale \div 10000)

\* str::parse::<f32> for the plain decimal forms [+-]digits[.digits] and
\* [+-].digits, in fixed point; integer parts above 9999 saturate there.
parse_f32(s) ==
    LET neg == s /= <<>> /\ Head(s) = "-"
        body == IF s /= <<>> /\ Head(s) \in {"+", "-"} THEN Tail(s) ELSE s
        dot == str_find(body, <<".">>)
        ip == IF IsSome(dot) THEN Slice(body, 0, dot.val) ELSE body
        fp == IF IsSome(dot) THEN Slice(body, dot.val + 1, Len(body)) ELSE <<>>
        sig == strip_zeros(ip)
        iv == IF Len(sig) > 4 THEN 9999 ELSE digits_value(sig)
        mag == iv * Scale + frac_value(fp)
    IN IF (ip = <<>> /\ fp = <<>>) \/ ~AllDigits(ip) \/ ~AllDigits(fp) THEN None
       ELSE Some(IF neg THEN 0 - mag ELSE mag)

\* opacity.rs parse_opacity_class
parse_opacity_class(cls) ==
    LET sfx == strip_prefix(cls, S_opacity_dash) IN
    IF IsNone(sfx) THEN None
    ELSE LET suffix == sfx.val
             bracketed == Len(suffix) >= 2 /\ Head(suffix) = "[" /\ suffix[Len(suffix)] = "]"
             inner == SubSeq(suffix, 2, Len(suffix) - 1)
         IN IF suffix = <<>> THEN None
            ELSE IF bracketed
            THEN IF inner = <<>> THEN None
                 ELSE IF inner[Len(inner)] = "%"
                 THEN LET pct == parse_f32(SubSeq(inner, 1, Len(inner) - 1))
                      IN IF IsNone(pct) THEN None ELSE Some(pct.val \div 100)
                 ELSE parse_f32(inner)
            ELSE LET n == parse_u32(suffix)
                 IN IF IsNone(n) THEN None
                    ELSE IF n.val > 100 THEN None
                    ELSE Some((n.val * Scale) \div 100)

\* opacity.rs find_opacity_in_raw_tag: first non-variant opacity-* class
RECURSIVE find_opacity_from(_, _)
find_opacity_from(raw_tag, i) ==
    LET len == Len(raw_tag)
        prefix_len == Len(S_opacity_dash)
    IN
    IF ~(i + prefix_len < len) THEN None
    ELSE IF Slice(raw_tag, i, i + prefix_len) = S_opacity_dash
    THEN LET prev == At(raw_tag, i - 1) IN
         IF i > 0 /\ prev = ":" THEN find_opacity_from(raw_tag, i + 1)
         ELSE IF i > 0 /\ (prev = "-" \/ is_ascii_alphanumeric(prev) \/ prev = "_")
         THEN find_opacity_from(raw_tag, i + 1)
         ELSE IF i > 0 /\ ~is_delim_before(prev) THEN find_opacity_from(raw_tag, i + 1)
         ELSE LET e == class_token_end(raw_tag, i)
                  val == parse_opacity_class(Slice(raw_tag, i, e))
              IN IF IsSome(val) THEN val ELSE find_opacity_from(raw_tag, e)
    ELSE find_opacity_from(raw_tag, i + 1)
find_opacity_in_raw_tag(raw_tag) == find_opacity_from(raw_tag, 0)

\* ------------------------------------------------------------------ text colour

TEXT_NON_COLOR_PREFIXES ==
    {<<"t","e","x","t","-","x","s">>, <<"t","e","x","t","-","s","m">>, <<"t","e","x","t","-","b","a","s","e">>, <<"t","e","x","t","-","l","g">>, <<"t","e","x","t","-","x","l">>,
     <<"t","e","x","t","-","l","e","f","t">>, <<"t","e","x","t","-","c","e","n","t","e","r">>, <<"t","e","x","t","-","r","i","g","h","t">>, <<"t","e","x","t","-","j","u","s","t","i","f","y">>,
     <<"t","e","x","t","-","s","t","a","r","t">>, <<"t","e","x","t","-","e","n","d">>, <<"t","e","x","t","-","w","r","a","p">>, <<"t","e","x","t","-","n","o","w","r","a","p">>,
     <<"t","e","x","t","-","b","a","l","a","n","c","e">>, <<"t","e","x","t","-","p","r","e","t","t","y">>, <<"t","e","x","t","-","e","l","l","i","p","s","i","s">>, <<"t","e","x","t","-","c","l","i","p">>,
     <<"t","e","x","t","-","t","r","u","n","c","a","t","e">>, <<"t","e","x","t","-","d","e","c","o","r","a","t","i","o","n","-">>}

\* current_color_resolver.rs is_non_color_text_utility
is_non_color_text_utility(cls) ==
    LET after_dash == SubSeq(cls, Len(S_text_dash) + 1, Len(cls)) IN
    \/ \E prefix \in TEXT_NON_COLOR_PREFIXES :
          cls = prefix \/ starts_with(cls, prefix \o <<"/">>)
    \/ (after_dash /= <<>> /\ is_ascii_digit(Head(after_dash)))
    \/ starts_with(cls, S_text_opacity)

\* current_color_resolver.rs find_text_color_in_raw_tag
RECURSIVE find_text_color_from(_, _)
find_text_color_from(raw_tag, i) ==
    LET len == Len(raw_tag) IN
    IF ~(i + 5 < len) THEN None
    ELSE IF Slice(raw_tag, i, i + 5) = S_text_dash
    THEN IF i > 0 /\ At(raw_tag, i - 1) = ":" THEN find_text_color_from(raw_tag, i + 1)
         ELSE IF i > 0 /\ ~is_delim_before(At(raw_tag, i - 1))
         THEN find_text_color_from(raw_tag, i + 1)
         ELSE LET end == class_token_end(raw_tag, i)
                  cls == Slice(raw_tag, i, end)
              IN IF is_non_color_text_utility(cls)
                 THEN find_text_color_from(raw_tag, end)
                 ELSE Some(cls)
    ELSE find_text_color_from(raw_tag, i + 1)
find_text_color_in_raw_tag(raw_tag) == find_text_color_from(raw_tag, 0)

\* ------------------------------------------------------------------ disabled

\* disabled_detector.rs is_disabled_tag, the standalone `disabled` scan
RECURSIVE disabled_scan(_, _)
disabled_scan(raw_tag, i) ==
    LET len == Len(raw_tag)
        dlen == Len(S_disabled)
        after_pos == i + dlen
        after_ch == At(raw_tag, after_pos)
        eq_after == after_pos + 1
    IN
    IF ~(i + dlen <= len) THEN FALSE
    ELSE IF Slice(raw_tag, i, i + dlen) = S_disabled
    THEN IF i >= 5 /\ Slice(raw_tag, i - 5, i) = S_aria_dash
         THEN disabled_scan(raw_tag, i + dlen)
         ELSE IF i > 0 /\ At(raw_tag, i - 1) \notin {" ", "\t", "\n", "\r"}
         THEN disabled_scan(raw_tag, i + 1)
         ELSE IF after_pos >= len THEN TRUE
         ELSE IF after_ch \in {" ", "\t", "\n", ">", "/"} THEN TRUE
         ELSE IF after_ch = "=" /\ eq_after < len
         THEN IF starts_with(Slice(raw_tag, eq_after, len), <<"{","f","a","l","s","e","}">>)
              THEN disabled_scan(raw_tag, i + dlen)
              ELSE TRUE
         ELSE disabled_scan(raw_tag, i + 1)
    ELSE disabled_scan(raw_tag, i + 1)

\* disabled_detector.rs is_disabled_tag
is_disabled_tag(raw_tag) ==
    LET len == Len(raw_tag)
        pos == str_find(raw_tag, S_aria_disabled)
        after == pos.val + Len(S_aria_disabled)
        rest == Slice(raw_tag, after, len)
        aria_true ==
            /\ IsSome(pos)
            /\ after < len
            /\ \/ starts_with(rest, <<"=","\"","t","r","u","e","\"">>)
               \/ starts_with(rest, <<"=","'","t","r","u","e","'">>)
               \/ starts_with(rest, <<"=","{","t","r","u","e","}">>)
               \/ starts_with(rest, <<"=","{","\"","t","r","u","e","\"","}">>)
               \/ starts_with(rest, <<"=","{","'","t","r","u","e","'","}">>)
    IN aria_true \/ disabled_scan(raw_tag, 0)

\* disabled_detector.rs has_disabled_variant
has_disabled_variant(class_content) ==
    LET toks == split_whitespace(class_content) IN
    \E k \in 1..Len(toks) : starts_with(toks[k], S_disabled_colon)

\* ------------------------------------------------------------------ inline style

\* class_extractor.rs extract_style_property, the quoted value at offset j
RECURSIVE style_str_end(_, _, _)
style_str_end(bytes, quote, str_end) ==
    IF str_end < Len(bytes) /\ At(bytes, str_end) /= quote
    THEN style_str_end(bytes, quote,
                       IF At(bytes, str_end) = "\\" THEN str_end + 2 ELSE str_end + 1)
    ELSE str_end

RECURSIVE skip_ws(_, _)
skip_ws(bytes, i) ==
    IF i < Len(bytes) /\ is_ascii_whitespace(At(bytes, i)) THEN skip_ws(bytes, i + 1) ELSE i

\* class_extractor.rs extract_style_property
RECURSIVE style_property_from(_, _, _)
style_property_from(style_body, property, i) ==
    LET len == Len(style_body)
        plen == Len(property)
        j1 == skip_ws(style_body, i + plen)
        j2 == skip_ws(style_body, j1 + 1)
        quote == At(style_body, j2)
        str_start == j2 + 1
        str_end == style_str_end(style_body, quote, str_start)
        found ==
            /\ Slice(style_body, i, i + plen) = property
            /\ j1 < len /\ At(style_body, j1) = ":"
            /\ j2 < len /\ quote \in {"'", "\""}
            /\ str_end < len
    IN
    IF ~(i + plen < len) THEN None
    ELSE IF i > 0 /\ (is_ascii_alphanumeric(At(style_body, i - 1)) \/ At(style_body, i - 1) = "_")
    THEN style_property_from(style_body, property, i + 1)
    ELSE IF found THEN Some(Slice(style_body, str_start, str_end))
    ELSE style_property_from(style_body, property, i + 1)
extract_style_property(style_body, property) == style_property_from(style_body, property, 0)

\* class_extractor.rs extract_inline_style_colors, the brace matching:
\* the offset where the depth reaches zero, or the length if it never does
RECURSIVE style_close(_, _, _)
style_close(bytes, i, depth) ==
    IF i < Len(bytes) /\ depth > 0
    THEN LET d == IF At(bytes, i) = "{" THEN depth + 1
                  ELSE IF At(bytes, i) = "}" THEN depth - 1 ELSE depth
         IN IF d > 0 THEN style_close(bytes, i + 1, d) ELSE [i |-> i, depth |-> d]
    ELSE [i |-> i, depth |-> depth]

\* class_extractor.rs extract_inline_style_colors
extract_inline_style_colors(raw_tag) ==
    LET style_start == str_find(raw_tag, <<"s","t","y","l","e","=","{","{">>)
        body_start == style_start.val + 8
        m == style_close(raw_tag, body_start, 2)
        style_body == Slice(raw_tag, body_start, m.i)
        color == extract_style_property(style_body, <<"c","o","l","o","r">>)
        background_color == extract_style_property(style_body, <<"b","a","c","k","g","r","o","u","n","d","C","o","l","o","r">>)
    IN IF IsNone(style_start) THEN None
       ELSE IF m.depth /= 0 THEN None
       ELSE IF IsNone(color) /\ IsNone(background_color) THEN None
       ELSE Some([color |-> color, background_color |-> background_color])

\* ------------------------------------------------------------------ context tracker

\* ContextTracker::new: an empty stack and no pending block override.
\* A tracker is [stack, pending_block_override]; container_config and
\* DefaultBg are the injected, immutable configuration.
ContextTracker_new == [stack |-> <<>>, pending_block_override |-> None]

StackEntry(tag, bg_class, is_annotation, cumulative_opacity) ==
    [tag |-> tag, bg_class |-> bg_class, is_annotation |-> is_annotation,
     cumulative_opacity |-> cumulative_opacity]

current_bg(t) ==
    IF t.stack = <<>> THEN DefaultBg ELSE t.stack[Len(t.stack)].bg_class

current_opacity(t) ==
    IF t.stack = <<>> THEN Scale ELSE t.stack[Len(t.stack)].cumulative_opacity

annotation_key(tag_name) == S_annotation_prefix \o tag_name

\* resolve_pending_block giving the synthetic entry full opacity
resolve_pending_block_opaque(t, tag_name, is_self_closing) ==
    IF IsSome(t.pending_block_override)
    THEN [stack |-> IF ~is_self_closing
                    THEN Append(t.stack,
                                StackEntry(annotation_key(tag_name),
                                           t.pending_block_override.val, TRUE, Scale))
                    ELSE t.stack,
          pending_block_override |-> None]
    ELSE t

resolve_pending_block(t, tag_name, is_self_closing) ==
    IF IsSome(t.pending_block_override)
    THEN [stack |-> IF ~is_self_closing
                    THEN Append(t.stack,
                                StackEntry(annotation_key(tag_name),
                                           t.pending_block_override.val, TRUE,
                                           current_opacity(t)))
                    ELSE t.stack,
          pending_block_override |-> None]
    ELSE t

\* f32 product of two opacities, in fixed point
opacity_mul(a, b) == (a * b) \div Scale


\* on_tag_open without its early return for a self-closing tag
ContextTracker_on_tag_open_any(t, tag_name, is_self_closing, raw_tag) ==
    LET opacity == find_opacity_in_raw_tag(raw_tag)
        cumulative == opacity_mul(current_opacity(t), UnwrapOr(opacity, Scale))
        explicit_bg == find_explicit_bg_in_raw_tag(raw_tag)
        push(bg) == [t EXCEPT !.stack = Append(@, StackEntry(tag_name, bg, FALSE, cumulative))]
    IN IF tag_name \in DOMAIN container_config
       THEN push(UnwrapOr(explicit_bg, container_config[tag_name]))
       ELSE IF IsSome(explicit_bg) THEN push(explicit_bg.val)
       ELSE IF IsSome(opacity) THEN push(current_bg(t))
       ELSE t

\* on_tag_open letting the container map win over an explicit bg class
ContextTracker_on_tag_open_config_first(t, tag_name, is_self_closing, raw_tag) ==
    LET opacity == find_opacity_in_raw_tag(raw_tag)
        cumulative == opacity_mul(current_opacity(t), UnwrapOr(opacity, Scale))
        explicit_bg == find_explicit_bg_in_raw_tag(raw_tag)
        push(bg) == [t EXCEPT !.stack = Append(@, StackEntry(tag_name, bg, FALSE, cumulative))]
    IN IF is_self_closing THEN t
       ELSE IF tag_name \in DOMAIN container_config THEN push(container_config[tag_name])
       ELSE IF IsSome(explicit_bg) THEN push(explicit_bg.val)
       ELSE IF IsSome(opacity) THEN push(current_bg(t))
       ELSE t

\* on_tag_open storing the tag's own opacity instead of the cumulative one
ContextTracker_on_tag_open_own_opacity(t, tag_name, is_self_closing, raw_tag) ==
    LET opacity == find_opacity_in_raw_tag(raw_tag)
        cumulative == UnwrapOr(opacity, Scale)
        explicit_bg == find_explicit_bg_in_raw_tag(raw_tag)
        push(bg) == [t EXCEPT !.stack = Append(@, StackEntry(tag_name, bg, FALSE, cumulative))]
    IN IF is_self_closing THEN t
       ELSE IF tag_name \in DOMAIN container_config
       THEN push(UnwrapOr(explicit_bg, container_config[tag_name]))
       ELSE IF IsSome(explicit_bg) THEN push(explicit_bg.val)
       ELSE IF IsSome(opacity) THEN push(current_bg(t))
       ELSE t

ContextTracker_on_tag_open(t, tag_name, is_self_closing, raw_tag) ==
    LET opacity == find_opacity_in_raw_tag(raw_tag)
        parent_opacity == current_opacity(t)
        cumulative == opacity_mul(parent_opacity, UnwrapOr(opacity, Scale))
        explicit_bg == find_explicit_bg_in_raw_tag(raw_tag)
        push(bg) == [t EXCEPT !.stack = Append(@, StackEntry(tag_name, bg, FALSE, cumulative))]
    IN IF is_self_closing THEN t
       ELSE IF tag_name \in DOMAIN container_config
       THEN push(UnwrapOr(explicit_bg, container_config[tag_name]))
       ELSE IF IsSome(explicit_bg) THEN push(explicit_bg.val)
       ELSE IF IsSome(opacity) THEN push(current_bg(t))
       ELSE t

\* Iterator::rposition over the context stack: the greatest index (1-based)
\* whose entry matches the tag or its annotation form, or 0
context_rposition(stack, tag_name) ==
    LET hits == {k \in 1..Len(stack) :
                    stack[k].tag = tag_name \/ stack[k].tag = annotation_key(tag_name)}
    IN IF hits = {} THEN 0 ELSE CHOOSE k \in hits : \A h \in hits : h <= k

\* on_tag_close truncating above the deeper match instead of at it
ContextTracker_on_tag_close_keep_match(t, tag_name) ==
    LET n == Len(t.stack)
        idx == context_rposition(t.stack, tag_name)
    IN IF n > 0 /\ t.stack[n].tag = tag_name
       THEN [t EXCEPT !.stack = SubSeq(@, 1, n - 1)]
       ELSE IF n > 0 /\ t.stack[n].tag = annotation_key(tag_name)
       THEN [t EXCEPT !.stack = SubSeq(@, 1, n - 1)]
       ELSE IF idx > 0 THEN [t EXCEPT !.stack = SubSeq(@, 1, idx)]
       ELSE t

ContextTracker_on_tag_close(t, tag_name) ==
    LET n == Len(t.stack)
        idx == context_rposition(t.stack, tag_name)
    IN IF n > 0 /\ t.stack[n].tag = tag_name
       THEN [t EXCEPT !.stack = SubSeq(@, 1, n - 1)]
       ELSE IF n > 0 /\ t.stack[n].tag = annotation_key(tag_name)
       THEN [t EXCEPT !.stack = SubSeq(@, 1, n - 1)]
       ELSE IF idx > 0 THEN [t EXCEPT !.stack = SubSeq(@, 1, idx - 1)]
       ELSE t

\* The last `bg:` token among tokens, or keep
RECURSIVE last_bg_token(_, _)
last_bg_token(tokens, keep) ==
    IF tokens = <<>> THEN keep
    ELSE LET bg == strip_prefix(Head(tokens), S_bg_colon)
         IN last_bg_token(Tail(tokens), IF IsSome(bg) THEN bg ELSE keep)

ContextTracker_on_comment(t, content) ==
    LET body == strip_prefix(trim(content), S_block_prefix) IN
    IF IsSome(body)
    THEN [t EXCEPT !.pending_block_override =
                       last_bg_token(split_whitespace(trim(body.val)), @)]
    ELSE t

\* ------------------------------------------------------------------ annotation parser

AnnotationParser_new == [pending_context |-> None, pending_ignore |-> None]

RECURSIVE context_params_fold(_, _)
context_params_fold(tokens, ctx) ==
    IF tokens = <<>> THEN ctx
    ELSE LET token == Head(tokens)
             bg == strip_prefix(token, S_bg_colon)
             fg == strip_prefix(token, S_fg_colon)
         IN context_params_fold(Tail(tokens),
                IF IsSome(bg) THEN [ctx EXCEPT !.bg = bg]
                ELSE IF IsSome(fg) THEN [ctx EXCEPT !.fg = fg]
                ELSE IF token = S_no_inherit THEN [ctx EXCEPT !.no_inherit = TRUE]
                ELSE ctx)

\* parse_context_params without the check that bg: or fg: is present
parse_context_params_any(param_string) ==
    Some(context_params_fold(split_whitespace(trim(param_string)),
                             [bg |-> None, fg |-> None, no_inherit |-> FALSE]))

parse_context_params(param_string) ==
    LET ctx == context_params_fold(split_whitespace(trim(param_string)),
                                   [bg |-> None, fg |-> None, no_inherit |-> FALSE])
    IN IF IsNone(ctx.bg) /\ IsNone(ctx.fg) THEN None ELSE Some(ctx)

\* on_comment without the early return on a block annotation
AnnotationParser_on_comment_no_skip(a, content) ==
    LET trimmed == trim(content)
        body == strip_prefix(trimmed, S_context_prefix)
        rest == strip_prefix(trimmed, S_ignore_prefix)
        ctx == parse_context_params(body.val)
        after_colon == strip_prefix(rest.val, <<":">>)
        reason == IF IsSome(after_colon) THEN trim(after_colon.val) ELSE <<>>
    IN IF IsSome(body)
       THEN (IF IsSome(ctx) THEN [a EXCEPT !.pending_context = ctx] ELSE a)
       ELSE IF IsSome(rest) THEN [a EXCEPT !.pending_ignore = Some(reason)]
       ELSE a

\* on_comment keeping an unconsumed annotation when a newer one arrives
AnnotationParser_on_comment_keep_first(a, content) ==
    LET trimmed == trim(content)
        body == strip_prefix(trimmed, S_context_prefix)
        rest == strip_prefix(trimmed, S_ignore_prefix)
        ctx == parse_context_params(body.val)
        after_colon == strip_prefix(rest.val, <<":">>)
        reason == IF IsSome(after_colon) THEN trim(after_colon.val) ELSE <<>>
    IN IF starts_with(trimmed, S_block_prefix) THEN a
       ELSE IF IsSome(body)
       THEN (IF IsSome(ctx) /\ IsNone(a.pending_context)
             THEN [a EXCEPT !.pending_context = ctx] ELSE a)
       ELSE IF IsSome(rest) /\ IsNone(a.pending_ignore)
       THEN [a EXCEPT !.pending_ignore = Some(reason)]
       ELSE a

AnnotationParser_on_comment(a, content) ==
    LET trimmed == trim(content)
        body == strip_prefix(trimmed, S_context_prefix)
        rest == strip_prefix(trimmed, S_ignore_prefix)
        ctx == parse_context_params(body.val)
        after_colon == strip_prefix(rest.val, <<":">>)
        reason == IF IsSome(after_colon) THEN trim(after_colon.val) ELSE <<>>
    IN IF starts_with(trimmed, S_block_prefix) THEN a
       ELSE IF IsSome(body)
       THEN (IF IsSome(ctx) THEN [a EXCEPT !.pending_context = ctx] ELSE a)
       ELSE IF IsSome(rest) THEN [a EXCEPT !.pending_ignore = Some(reason)]
       ELSE a

\* take_pending_context / take_pending_ignore: the value taken is the slot's
\* content; the parser after the take has the slot empty.

\* take_pending_context leaving the slot filled
take_pending_context_kept(a) == a

take_pending_context(a) == [a EXCEPT !.pending_context = None]
take_pending_ignore(a) == [a EXCEPT !.pending_ignore = None]

\* ------------------------------------------------------------------ inherited text colour

CurrentColorResolver_new == [color_stack |-> <<>>]

current_color(c) ==
    IF c.color_stack = <<>> THEN None
    ELSE Some(c.color_stack[Len(c.color_stack)].color_class)

CurrentColorResolver_on_tag_open(c, tag_name, is_self_closing, raw_tag) ==
    LET color_class == find_text_color_in_raw_tag(raw_tag) IN
    IF is_self_closing THEN c
    ELSE IF IsSome(color_class)
    THEN [c EXCEPT !.color_stack =
                       Append(@, [tag |-> tag_name, color_class |-> color_class.val])]
    ELSE c

color_rposition(stack, tag_name) ==
    LET hits == {k \in 1..Len(stack) : stack[k].tag = tag_name}
    IN IF hits = {} THEN 0 ELSE CHOOSE k \in hits : \A h \in hits : h <= k

\* on_tag_close popping the top entry whatever its tag
CurrentColorResolver_on_tag_close_pop_any(c, tag_name) ==
    LET n == Len(c.color_stack)
    IN IF n > 0 THEN [c EXCEPT !.color_stack = SubSeq(@, 1, n - 1)] ELSE c

CurrentColorResolver_on_tag_close(c, tag_name) ==
    LET n == Len(c.color_stack)
        idx == color_rposition(c.color_stack, tag_name)
    IN IF n > 0 /\ c.color_stack[n].tag = tag_name
       THEN [c EXCEPT !.color_stack = SubSeq(@, 1, n - 1)]
       ELSE IF idx > 0 THEN [c EXCEPT !.color_stack = SubSeq(@, 1, idx - 1)]
       ELSE c

\* ------------------------------------------------------------------ region builder

ClassExtractor_new == [regions |-> <<>>]

\* An opacity at or above 0.999 is treated as fully opaque.
OpaqueThreshold == 9990


\* record, storing the suppression reason as given
record_raw_reason(x, content, line, raw_tag, context_bg, context_override, ignore_reason, effective_opacity) ==
    LET inline_styles == extract_inline_style_colors(raw_tag)
        has_ctx == IsSome(context_override)
    IN [x EXCEPT !.regions = Append(@,
           [content |-> content, start_line |-> line, context_bg |-> context_bg,
            inline_color |-> IF IsSome(inline_styles) THEN inline_styles.val.color ELSE None,
            inline_background_color |->
                IF IsSome(inline_styles) THEN inline_styles.val.background_color ELSE None,
            context_override_bg |-> IF has_ctx THEN context_override.val.bg ELSE None,
            context_override_fg |-> IF has_ctx THEN context_override.val.fg ELSE None,
            context_override_no_inherit |->
                IF has_ctx /\ context_override.val.no_inherit THEN Some(TRUE) ELSE None,
            ignored |-> IF IsSome(ignore_reason) THEN Some(TRUE) ELSE None,
            ignore_reason |-> ignore_reason,
            effective_opacity |-> None])]

\* record, keeping only the Region it builds
record_latest(x, content, line, raw_tag, context_bg, context_override, ignore_reason, effective_opacity) ==
    [x EXCEPT !.regions =
        <<[content |-> content, start_line |-> line, context_bg |-> context_bg,
           inline_color |-> None, inline_background_color |-> None,
           context_override_bg |-> None, context_override_fg |-> None,
           context_override_no_inherit |-> None,
           ignored |-> IF IsSome(ignore_reason) THEN Some(TRUE) ELSE None,
           ignore_reason |-> ignore_reason, effective_opacity |-> None]>>]

record(x, content, line, raw_tag, context_bg, context_override, ignore_reason, effective_opacity) ==
    LET inline_styles == extract_inline_style_colors(raw_tag)
        opacity == IF IsSome(effective_opacity) /\ ~(effective_opacity.val >= OpaqueThreshold)
                   THEN effective_opacity ELSE None
        has_ctx == IsSome(context_override)
        region ==
            [content |-> content,
             start_line |-> line,
             context_bg |-> context_bg,
             inline_color |-> IF IsSome(inline_styles) THEN inline_styles.val.color ELSE None,
             inline_background_color |->
                 IF IsSome(inline_styles) THEN inline_styles.val.background_color ELSE None,
             context_override_bg |-> IF has_ctx THEN context_override.val.bg ELSE None,
             context_override_fg |-> IF has_ctx THEN context_override.val.fg ELSE None,
             context_override_no_inherit |->
                 IF has_ctx /\ context_override.val.no_inherit THEN Some(TRUE) ELSE None,
             ignored |-> IF IsSome(ignore_reason) THEN Some(TRUE) ELSE None,
             ignore_reason |->
                 IF IsSome(ignore_reason)
                 THEN Some(IF ignore_reason.val = <<>> THEN S_suppressed
                           ELSE ignore_reason.val)
                 ELSE None,
             effective_opacity |-> opacity]
    IN [x EXCEPT !.regions = Append(@, region)]

\* ------------------------------------------------------------------ orchestrator

ScanOrchestrator_new ==
    [context_tracker |-> ContextTracker_new,
     annotation_parser |-> AnnotationParser_new,
     class_extractor |-> ClassExtractor_new,
     current_color |-> CurrentColorResolver_new,
     pre_tag_open_bg |-> None]


\* on_tag_open capturing the background after the tag's own update
ScanOrchestrator_on_tag_open_capture_after(o, tag_name, is_self_closing, raw_tag) ==
    LET t1 == resolve_pending_block(o.context_tracker, tag_name, is_self_closing)
        t2 == ContextTracker_on_tag_open(t1, tag_name, is_self_closing, raw_tag)
    IN [o EXCEPT !.context_tracker = t2,
                 !.pre_tag_open_bg = Some(current_bg(t2)),
                 !.current_color =
                     CurrentColorResolver_on_tag_open(@, tag_name, is_self_closing, raw_tag)]

\* on_tag_open capturing the background before the pending block is resolved
ScanOrchestrator_on_tag_open_capture_first(o, tag_name, is_self_closing, raw_tag) ==
    LET t1 == resolve_pending_block(o.context_tracker, tag_name, is_self_closing)
        t2 == ContextTracker_on_tag_open(t1, tag_name, is_self_closing, raw_tag)
    IN [o EXCEPT !.context_tracker = t2,
                 !.pre_tag_open_bg = Some(current_bg(o.context_tracker)),
                 !.current_color =
                     CurrentColorResolver_on_tag_open(@, tag_name, is_self_closing, raw_tag)]

ScanOrchestrator_on_tag_open(o, tag_name, is_self_closing, raw_tag) ==
    LET t1 == resolve_pending_block(o.context_tracker, tag_name, is_self_closing)
        captured == Some(current_bg(t1))
        t2 == ContextTracker_on_tag_open(t1, tag_name, is_self_closing, raw_tag)
    IN [o EXCEPT !.context_tracker = t2,
                 !.pre_tag_open_bg = captured,
                 !.current_color =
                     CurrentColorResolver_on_tag_open(@, tag_name, is_self_closing, raw_tag)]

\* on_tag_close dropping the annotations that no className has consumed
ScanOrchestrator_on_tag_close_drop_pending(o, tag_name) ==
    [o EXCEPT !.context_tracker = ContextTracker_on_tag_close(@, tag_name),
              !.current_color = CurrentColorResolver_on_tag_close(@, tag_name),
              !.annotation_parser = AnnotationParser_new]

ScanOrchestrator_on_tag_close(o, tag_name) ==
    [o EXCEPT !.context_tracker = ContextTracker_on_tag_close(@, tag_name),
              !.current_color = CurrentColorResolver_on_tag_close(@, tag_name)]

ScanOrchestrator_on_comment(o, content) ==
    [o EXCEPT !.context_tracker = ContextTracker_on_comment(@, content),
              !.annotation_parser = AnnotationParser_on_comment(@, content)]


\* on_class_attribute giving a disabled element the synthesized reason always
ScanOrchestrator_on_class_attribute_disabled_first(o, value, line, raw_tag) ==
    LET live == current_bg(o.context_tracker)
        context_bg == IF raw_tag /= <<>> THEN UnwrapOr(o.pre_tag_open_bg, live) ELSE live
        is_disabled == is_disabled_tag(raw_tag) \/ has_disabled_variant(value)
    IN [o EXCEPT !.pre_tag_open_bg = IF raw_tag /= <<>> THEN None ELSE @,
                 !.annotation_parser = take_pending_ignore(take_pending_context(@)),
                 !.class_extractor =
                     record(@, value, line, raw_tag, context_bg,
                            o.annotation_parser.pending_context,
                            IF is_disabled THEN Some(S_disabled_reason)
                            ELSE o.annotation_parser.pending_ignore,
                            None)]

\* on_class_attribute taking an element inside an open stack entry for disabled
ScanOrchestrator_on_class_attribute_disabled_inherited(o, value, line, raw_tag) ==
    LET live == current_bg(o.context_tracker)
        context_bg == IF raw_tag /= <<>> THEN UnwrapOr(o.pre_tag_open_bg, live) ELSE live
        context_override == o.annotation_parser.pending_context
        ignore_reason == o.annotation_parser.pending_ignore
        is_disabled ==
            \/ is_disabled_tag(raw_tag) \/ has_disabled_variant(value)
            \/ o.context_tracker.stack /= <<>>
        final_ignore_reason ==
            IF is_disabled /\ IsNone(ignore_reason) THEN Some(S_disabled_reason)
            ELSE ignore_reason
    IN [o EXCEPT !.pre_tag_open_bg = IF raw_tag /= <<>> THEN None ELSE @,
                 !.annotation_parser = take_pending_ignore(take_pending_context(@)),
                 !.class_extractor =
                     record(@, value, line, raw_tag, context_bg, context_override,
                            final_ignore_reason, None)]

\* on_class_attribute reading the captured background without taking it
ScanOrchestrator_on_class_attribute_capture_kept(o, value, line, raw_tag) ==
    LET live == current_bg(o.context_tracker)
        context_bg == IF raw_tag /= <<>> THEN UnwrapOr(o.pre_tag_open_bg, live) ELSE live
        context_override == o.annotation_parser.pending_context
        ignore_reason == o.annotation_parser.pending_ignore
        is_disabled == is_disabled_tag(raw_tag) \/ has_disabled_variant(value)
        final_ignore_reason ==
            IF is_disabled /\ IsNone(ignore_reason) THEN Some(S_disabled_reason)
            ELSE ignore_reason
    IN [o EXCEPT !.annotation_parser = take_pending_ignore(take_pending_context(@)),
                 !.class_extractor =
                     record(@, value, line, raw_tag, context_bg, context_override,
                            final_ignore_reason, None)]

\* The record call of on_class_attribute names six arguments; the seventh,
\* effective_opacity, is not supplied by the orchestrator.
ScanOrchestrator_on_class_attribute(o, value, line, raw_tag) ==
    LET live == current_bg(o.context_tracker)
        context_bg == IF raw_tag /= <<>> THEN UnwrapOr(o.pre_tag_open_bg, live) ELSE live
        context_override == o.annotation_parser.pending_context
        ignore_reason == o.annotation_parser.pending_ignore
        is_disabled == is_disabled_tag(raw_tag) \/ has_disabled_variant(value)
        final_ignore_reason ==
            IF is_disabled /\ IsNone(ignore_reason) THEN Some(S_disabled_reason)
            ELSE ignore_reason
    IN [o EXCEPT !.pre_tag_open_bg = IF raw_tag /= <<>> THEN None ELSE @,
                 !.annotation_parser = take_pending_ignore(take_pending_context(@)),
                 !.class_extractor =
                     record(@, value, line, raw_tag, context_bg, context_override,
                            final_ignore_reason, None)]

\* ------------------------------------------------------------------ tokenizer helpers

\* tokenizer.rs build_line_offsets: the offsets at which lines start
build_line_offsets(source) ==
    LET starts == {0} \cup {k \in 1..Len(source) : source[k] = "\n"}
        nth[n \in 1..Cardinality(starts)] ==
            CHOOSE s \in starts : Cardinality({r \in starts : r < s}) = n - 1
    IN [n \in 1..Cardinality(starts) |-> nth[n]]

\* tokenizer.rs line_at_offset: binary_search gives Ok(i) -> i + 1 for an
\* offset that starts a line, and Err(i) -> i, the insertion point, otherwise
line_at_offset(offsets, offset) ==
    IF \E k \in 1..Len(offsets) : offsets[k] = offset
    THEN CHOOSE k \in 1..Len(offsets) : offsets[k] = offset
    ELSE Cardinality({k \in 1..Len(offsets) : offsets[k] < offset})

is_tag_name_ch(ch) == is_ascii_alphanumeric(ch) \/ ch \in {".", "-", "_"}

RECURSIVE tag_name_end(_, _)
tag_name_end(bytes, end) ==
    IF end < Len(bytes) /\ is_tag_name_ch(At(bytes, end))
    THEN tag_name_end(bytes, end + 1) ELSE end

\* tokenizer.rs read_tag_name: (name, end_position)
read_tag_name(bytes, start) ==
    LET end == tag_name_end(bytes, start)
    IN [name |-> IF start <= Len(bytes) THEN Slice(bytes, start, end) ELSE <<>>,
        end |-> end]

is_ident_char_before(bytes, i) ==
    IF i = 0 THEN FALSE
    ELSE is_ascii_alphanumeric(At(bytes, i - 1)) \/ At(bytes, i - 1) = "_"

\* The literal-skipping loop shared by the scans: from j, just past an
\* opening quote q, to the closing quote or past the end; a backslash
\* skips the byte after it.
RECURSIVE skip_quoted(_, _, _)
skip_quoted(bytes, j, q) ==
    IF j < Len(bytes) /\ At(bytes, j) /= q
    THEN skip_quoted(bytes, IF At(bytes, j) = "\\" THEN j + 2 ELSE j + 1, q)
    ELSE j

\* tokenizer.rs find_unescaped
RECURSIVE find_unescaped(_, _, _)
find_unescaped(bytes, target, start) ==
    IF ~(start < Len(bytes)) THEN None
    ELSE IF At(bytes, start) = "\\" THEN find_unescaped(bytes, target, start + 2)
    ELSE IF At(bytes, start) = target THEN Some(start)
    ELSE find_unescaped(bytes, target, start + 1)

\* is_self_closing_tag taking the first /> or > outside a literal, whatever
\* the brace depth
RECURSIVE self_closing_any_depth(_, _)
self_closing_any_depth(bytes, j) ==
    LET len == Len(bytes)
        ch == At(bytes, j)
        k == skip_quoted(bytes, j + 1, ch)
    IN IF ~(j < len) THEN FALSE
       ELSE IF ch \in {"\"", "'", BQ}
       THEN self_closing_any_depth(bytes, IF k < len THEN k + 1 ELSE k)
       ELSE IF ch = "/" /\ j + 1 < len /\ At(bytes, j + 1) = ">" THEN TRUE
       ELSE IF ch = ">" THEN FALSE
       ELSE self_closing_any_depth(bytes, j + 1)
is_self_closing_tag_any_depth(source, from_pos) == self_closing_any_depth(source, from_pos)

\* tokenizer.rs is_self_closing_tag
RECURSIVE self_closing_from(_, _, _)
self_closing_from(bytes, j, brace_depth) ==
    LET len == Len(bytes)
        ch == At(bytes, j)
        k == skip_quoted(bytes, j + 1, ch)
    IN IF ~(j < len) THEN FALSE
       ELSE IF ch = "{" THEN self_closing_from(bytes, j + 1, brace_depth + 1)
       ELSE IF ch = "}"
       THEN self_closing_from(bytes, j + 1,
                              IF brace_depth > 0 THEN brace_depth - 1 ELSE brace_depth)
       ELSE IF ch \in {"\"", "'", BQ}
       THEN self_closing_from(bytes, IF k < len THEN k + 1 ELSE k, brace_depth)
       ELSE IF brace_depth = 0 /\ ch = "/" /\ j + 1 < len /\ At(bytes, j + 1) = ">" THEN TRUE
       ELSE IF brace_depth = 0 /\ ch = ">" THEN FALSE
       ELSE self_closing_from(bytes, j + 1, brace_depth)
is_self_closing_tag(source, from_pos) == self_closing_from(source, from_pos, 0)

\* tokenizer.rs find_tag_close
RECURSIVE tag_close_from(_, _, _)
tag_close_from(bytes, j, brace_depth) ==
    LET len == Len(bytes)
        ch == At(bytes, j)
        k == skip_quoted(bytes, j + 1, ch)
    IN IF ~(j < len) THEN len
       ELSE IF ch = "{" THEN tag_close_from(bytes, j + 1, brace_depth + 1)
       ELSE IF ch = "}"
       THEN tag_close_from(bytes, j + 1,
                           IF brace_depth > 0 THEN brace_depth - 1 ELSE brace_depth)
       ELSE IF ch \in {"\"", "'", BQ}
       THEN tag_close_from(bytes, IF k < len THEN k + 1 ELSE k, brace_depth)
       ELSE IF brace_depth = 0 /\ ch = "/" /\ j + 1 < len /\ At(bytes, j + 1) = ">" THEN j + 2
       ELSE IF brace_depth = 0 /\ ch = ">" THEN j + 1
       ELSE tag_close_from(bytes, j + 1, brace_depth)
find_tag_close(source, from_pos) == tag_close_from(source, from_pos, 0)

\* tokenizer.rs find_tag_close: the return statement it leaves by, "/>" at
\* depth zero, a bare ">" at depth zero, or the end of the source
RECURSIVE tag_stop_from(_, _, _)
tag_stop_from(bytes, j, brace_depth) ==
    LET len == Len(bytes)
        ch == At(bytes, j)
        k == skip_quoted(bytes, j + 1, ch)
    IN IF ~(j < len) THEN "len"
       ELSE IF ch = "{" THEN tag_stop_from(bytes, j + 1, brace_depth + 1)
       ELSE IF ch = "}"
       THEN tag_stop_from(bytes, j + 1,
                          IF brace_depth > 0 THEN brace_depth - 1 ELSE brace_depth)
       ELSE IF ch \in {"\"", "'", BQ}
       THEN tag_stop_from(bytes, IF k < len THEN k + 1 ELSE k, brace_depth)
       ELSE IF brace_depth = 0 /\ ch = "/" /\ j + 1 < len /\ At(bytes, j + 1) = ">" THEN "/>"
       ELSE IF brace_depth = 0 /\ ch = ">" THEN ">"
       ELSE tag_stop_from(bytes, j + 1, brace_depth)
tag_close_stop(source, from_pos) == tag_stop_from(source, from_pos, 0)

\* tokenizer.rs extract_balanced_parens, the depth-tracking loop: the
\* offset and depth at which it stops
RECURSIVE balanced_from(_, _, _)
balanced_from(bytes, i, depth) ==
    LET len == Len(bytes)
        ch == At(bytes, i)
        d == IF ch = "(" THEN depth + 1 ELSE IF ch = ")" THEN depth - 1 ELSE depth
    IN IF ~(i < len /\ depth > 0) THEN [i |-> i, depth |-> depth]
       ELSE IF ch \in {"'", "\"", BQ}
       THEN balanced_from(bytes, skip_quoted(bytes, i + 1, ch) + 1, depth)
       ELSE IF d > 0 THEN balanced_from(bytes, i + 1, d)
       ELSE balanced_from(bytes, i, d)

\* extract_balanced_parens counting the parentheses inside literals too
RECURSIVE balanced_from_naive(_, _, _)
balanced_from_naive(bytes, i, depth) ==
    LET len == Len(bytes)
        ch == At(bytes, i)
        d == IF ch = "(" THEN depth + 1 ELSE IF ch = ")" THEN depth - 1 ELSE depth
    IN IF ~(i < len /\ depth > 0) THEN [i |-> i, depth |-> depth]
       ELSE IF d > 0 THEN balanced_from_naive(bytes, i + 1, d)
       ELSE balanced_from_naive(bytes, i, d)
extract_balanced_parens_naive(source, open_pos) ==
    LET m == balanced_from_naive(source, open_pos + 1, 1) IN
    IF open_pos >= Len(source) \/ At(source, open_pos) /= "(" THEN None
    ELSE IF m.depth = 0
    THEN Some([content |-> Slice(source, open_pos + 1, m.i), end |-> m.i])
    ELSE None

\* tokenizer.rs extract_balanced_parens: Some([content, end]) or None
extract_balanced_parens(source, open_pos) ==
    LET m == balanced_from(source, open_pos + 1, 1) IN
    IF open_pos >= Len(source) \/ At(source, open_pos) /= "(" THEN None
    ELSE IF m.depth = 0
    THEN Some([content |-> Slice(source, open_pos + 1, m.i), end |-> m.i])
    ELSE None

\* tokenizer.rs strip_template_expressions: the end of a ${...} expression
RECURSIVE template_expr_end(_, _, _)
template_expr_end(bytes, i, depth) ==
    IF i < Len(bytes) /\ depth > 0
    THEN template_expr_end(bytes, i + 1,
             IF At(bytes, i) = "{" THEN depth + 1
             ELSE IF At(bytes, i) = "}" THEN depth - 1 ELSE depth)
    ELSE i

RECURSIVE strip_template_from(_, _)
strip_template_from(template, i) ==
    LET len == Len(template) IN
    IF ~(i < len) THEN <<>>
    ELSE IF i + 1 < len /\ At(template, i) = "$" /\ At(template, i + 1) = "{"
    THEN <<" ">> \o strip_template_from(template, template_expr_end(template, i + 2, 1))
    ELSE <<At(template, i)>> \o strip_template_from(template, i + 1)
strip_template_expressions(template) == strip_template_from(template, 0)

\* ------------------------------------------------------------------ scanner

\* The events of the JsxVisitor trait, as the scanner emits them.
TagOpenEvent(tag_name, is_self_closing, raw_tag) ==
    [kind |-> "on_tag_open", tag_name |-> tag_name, is_self_closing |-> is_self_closing,
     text |-> <<>>, line |-> 0, raw_tag |-> raw_tag]
TagCloseEvent(tag_name) ==
    [kind |-> "on_tag_close", tag_name |-> tag_name, is_self_closing |-> FALSE,
     text |-> <<>>, line |-> 0, raw_tag |-> <<>>]
CommentEvent(content, line) ==
    [kind |-> "on_comment", tag_name |-> <<>>, is_self_closing |-> FALSE,
     text |-> content, line |-> line, raw_tag |-> <<>>]
ClassAttributeEvent(value, line, raw_tag) ==
    [kind |-> "on_class_attribute", tag_name |-> <<>>, is_self_closing |-> FALSE,
     text |-> value, line |-> line, raw_tag |-> raw_tag]

\* tokenizer.rs scan_tag_attributes: one className= occurrence at offset j.
\* The result is the value found and the offset at which the scan resumes;
\* without a recognised value shape the scan resumes just after the key.
class_attribute_at(source, j, tag_close) ==
    LET eq_end == j + Len(S_className_eq)
        after_eq == skip_ws(source, eq_end)
        inner == skip_ws(source, after_eq + 1)
        plain == find_unescaped(source, "\"", after_eq + 1)
        quoted == find_unescaped(source, At(source, inner), inner + 1)
        templ == find_unescaped(source, BQ, inner + 1)
        cn == extract_balanced_parens(source, inner + 2)
        clsx == extract_balanced_parens(source, inner + 4)
        braced == after_eq < tag_close /\ At(source, after_eq) = "{"
    IN IF after_eq < tag_close /\ At(source, after_eq) = "\"" /\ IsSome(plain)
       THEN [value |-> Some(Slice(source, after_eq + 1, plain.val)), next |-> plain.val + 1]
       ELSE IF braced /\ inner < tag_close /\ At(source, inner) \in {"'", "\""}
               /\ IsSome(quoted)
       THEN [value |-> Some(Slice(source, inner + 1, quoted.val)), next |-> quoted.val + 1]
       ELSE IF braced /\ inner < tag_close /\ At(source, inner) = BQ /\ IsSome(templ)
       THEN [value |-> Some(strip_template_expressions(Slice(source, inner + 1, templ.val))),
             next |-> templ.val + 1]
       ELSE IF braced /\ inner + 3 <= Len(source)
               /\ starts_with_at(source, inner, <<"c","n","(">>) /\ IsSome(cn)
       THEN [value |-> Some(cn.val.content), next |-> cn.val.end + 1]
       ELSE IF braced /\ inner + 5 <= Len(source)
               /\ starts_with_at(source, inner, <<"c","l","s","x","(">>) /\ IsSome(clsx)
       THEN [value |-> Some(clsx.val.content), next |-> clsx.val.end + 1]
       ELSE [value |-> None, next |-> eq_end]

\* scan_tag_attributes giving every event the line on which the tag starts
RECURSIVE scan_tag_attributes_tag_line(_, _, _, _, _)
scan_tag_attributes_tag_line(source, j, tag_close, line_offsets, raw_tag) ==
    LET m == class_attribute_at(source, j, tag_close) IN
    IF ~(j + Len(S_className_eq) <= tag_close) THEN <<>>
    ELSE IF starts_with_at(source, j, S_className_eq)
    THEN (IF IsSome(m.value)
          THEN <<ClassAttributeEvent(m.value.val,
                                     line_at_offset(line_offsets, tag_close - Len(raw_tag)),
                                     raw_tag)>>
          ELSE <<>>)
         \o scan_tag_attributes_tag_line(source, m.next, tag_close, line_offsets, raw_tag)
    ELSE scan_tag_attributes_tag_line(source, j + 1, tag_close, line_offsets, raw_tag)

\* tokenizer.rs scan_tag_attributes: the class-attribute events of one tag
RECURSIVE scan_tag_attributes(_, _, _, _, _)
scan_tag_attributes(source, j, tag_close, line_offsets, raw_tag) ==
    LET m == class_attribute_at(source, j, tag_close) IN
    IF ~(j + Len(S_className_eq) <= tag_close) THEN <<>>
    ELSE IF starts_with_at(source, j, S_className_eq)
    THEN (IF IsSome(m.value)
          THEN <<ClassAttributeEvent(m.value.val, line_at_offset(line_offsets, j), raw_tag)>>
          ELSE <<>>)
         \o scan_tag_attributes(source, m.next, tag_close, line_offsets, raw_tag)
    ELSE scan_tag_attributes(source, j + 1, tag_close, line_offsets, raw_tag)

\* tokenizer.rs scan_tag_attributes: for each class-attribute event of one
\* tag, the offset just past the closing delimiter of its value
RECURSIVE class_value_ends(_, _, _)
class_value_ends(source, j, tag_close) ==
    LET m == class_attribute_at(source, j, tag_close) IN
    IF ~(j + Len(S_className_eq) <= tag_close) THEN <<>>
    ELSE IF starts_with_at(source, j, S_className_eq)
    THEN (IF IsSome(m.value) THEN <<m.next>> ELSE <<>>)
         \o class_value_ends(source, m.next, tag_close)
    ELSE class_value_ends(source, j + 1, tag_close)

\* A slice &s[a..b] is in range when a <= b <= len; out of range it panics.
slice_ok(s, a, b) == a <= b /\ b <= Len(s)

RECURSIVE line_comment_end(_, _)
line_comment_end(bytes, i) ==
    IF i < Len(bytes) /\ At(bytes, i) /= "\n" THEN line_comment_end(bytes, i + 1) ELSE i

RECURSIVE block_comment_end(_, _)
block_comment_end(bytes, i) ==
    IF i + 1 < Len(bytes) /\ ~(At(bytes, i) = "*" /\ At(bytes, i + 1) = "/")
    THEN block_comment_end(bytes, i + 1) ELSE i

RECURSIVE skip_to_gt(_, _)
skip_to_gt(bytes, j) ==
    IF j < Len(bytes) /\ At(bytes, j) /= ">" THEN skip_to_gt(bytes, j + 1) ELSE j

Step(i, events, panic) == [i |-> i, events |-> events, panic |-> panic]

\* The branches of scan_jsx's main loop, each for one iteration at offset
\* i < len: the events it emits, the offset of the next iteration, and
\* whether a slice it takes is out of range.

scan_line_comment(source, i, line_offsets) ==
    LET e == line_comment_end(source, i + 2)
    IN Step(e, <<CommentEvent(Slice(source, i + 2, e), line_at_offset(line_offsets, i))>>,
            FALSE)

scan_block_comment(source, i, line_offsets) ==
    LET s == block_comment_end(source, i + 2)
        e == IF s + 1 < Len(source) THEN s + 2 ELSE s
        content_end == IF e >= 2 THEN e - 2 ELSE e
    IN IF slice_ok(source, i + 2, content_end)
       THEN Step(e, <<CommentEvent(Slice(source, i + 2, content_end),
                                   line_at_offset(line_offsets, i))>>, FALSE)
       ELSE Step(e, <<>>, TRUE)

scan_literal(source, i) ==
    LET k == skip_quoted(source, i + 1, At(source, i))
    IN Step(IF k < Len(source) THEN k + 1 ELSE k, <<>>, FALSE)

scan_closing_tag(source, i) ==
    LET t == read_tag_name(source, i + 2)
        j == skip_to_gt(source, t.end)
    IN Step(IF j < Len(source) THEN j + 1 ELSE j,
            IF t.name /= <<>> THEN <<TagCloseEvent(t.name)>> ELSE <<>>, FALSE)

\* The opening-tag branch resuming the main loop just after the tag name
scan_opening_tag_resume_inside(source, i, line_offsets) ==
    LET t == read_tag_name(source, i + 1)
        tag_close == find_tag_close(source, t.end)
        raw_tag == Slice(source, i, tag_close)
        is_self_closing == is_self_closing_tag(source, t.end)
    IN Step(t.end,
            <<TagOpenEvent(t.name, is_self_closing, raw_tag)>>
               \o scan_tag_attributes(source, t.end, tag_close, line_offsets, raw_tag),
            FALSE)

scan_opening_tag(source, i, line_offsets) ==
    LET t == read_tag_name(source, i + 1)
        tag_close == find_tag_close(source, t.end)
        raw_tag == Slice(source, i, tag_close)
        is_self_closing == is_self_closing_tag(source, t.end)
    IN Step(tag_close,
            <<TagOpenEvent(t.name, is_self_closing, raw_tag)>>
               \o scan_tag_attributes(source, t.end, tag_close, line_offsets, raw_tag),
            FALSE)

\* The standalone cn( / clsx( / cva( branch: Some(step) when it emits
standalone_call(source, i, line_offsets) ==
    LET len == Len(source)
        standalone_fn ==
            IF starts_with_at(source, i, <<"c","n","(">>) THEN Some(2)
            ELSE IF i + 5 <= len /\ starts_with_at(source, i, <<"c","l","s","x","(">>)
            THEN Some(4)
            ELSE IF i + 4 <= len /\ starts_with_at(source, i, <<"c","v","a","(">>)
            THEN Some(3)
            ELSE None
        call == extract_balanced_parens(source, i + standalone_fn.val)
    IN IF i + 3 <= len /\ ~is_ident_char_before(source, i)
          /\ IsSome(standalone_fn) /\ IsSome(call)
       THEN Some(Step(call.val.end + 1,
                      <<ClassAttributeEvent(call.val.content,
                                            line_at_offset(line_offsets, i), <<>>)>>,
                      FALSE))
       ELSE None

\* tokenizer.rs scan_jsx: one iteration of the main loop at offset i < len
scan_step(source, i, line_offsets) ==
    LET len == Len(source)
        ch == At(source, i)
        next == At(source, i + 1)
        call == standalone_call(source, i, line_offsets)
    IN IF i + 1 < len /\ ch = "/" /\ next = "/" THEN scan_line_comment(source, i, line_offsets)
       ELSE IF i + 1 < len /\ ch = "/" /\ next = "*"
       THEN scan_block_comment(source, i, line_offsets)
       ELSE IF ch \in {"\"", "'"} THEN scan_literal(source, i)
       ELSE IF ch = BQ THEN scan_literal(source, i)
       ELSE IF ch = "<" /\ i + 1 < len /\ next = "/" THEN scan_closing_tag(source, i)
       ELSE IF ch = "<" /\ i + 1 < len /\ is_ascii_alphabetic(next)
               /\ read_tag_name(source, i + 1).name /= <<>>
       THEN scan_opening_tag(source, i, line_offsets)
       ELSE IF IsSome(call) THEN call.val
       ELSE Step(i + 1, <<>>, FALSE)

\* impl JsxVisitor for ScanOrchestrator: the handler of the event e
ScanOrchestrator_visit(o, e) ==
    CASE e.kind = "on_tag_open" ->
            ScanOrchestrator_on_tag_open(o, e.tag_name, e.is_self_closing, e.raw_tag)
      [] e.kind = "on_tag_close" -> ScanOrchestrator_on_tag_close(o, e.tag_name)
      [] e.kind = "on_comment" -> ScanOrchestrator_on_comment(o, e.text)
      [] e.kind = "on_class_attribute" ->
            ScanOrchestrator_on_class_attribute(o, e.text, e.line, e.raw_tag)
      [] OTHER -> o

\* ScanOrchestrator::into_regions
into_regions(o) == o.class_extractor.regions

\* scan_jsx with the orchestrator as its only visitor, from offset i on:
\* the orchestrator at the end, or a panic
RECURSIVE scan_jsx(_, _, _)
scan_jsx(source, i, o) ==
    IF i >= Len(source) THEN [panic |-> FALSE, orchestrator |-> o]
    ELSE LET st == scan_step(source, i, build_line_offsets(source))
             RECURSIVE visit(_, _)
             visit(v, events) ==
                 IF events = <<>> THEN v
                 ELSE visit(ScanOrchestrator_visit(v, Head(events)), Tail(events))
         IN IF st.panic THEN [panic |-> TRUE, orchestrator |-> o]
            ELSE scan_jsx(source, st.i, visit(o, st.events))

\* scan_file: the Regions of one source, or a panic
scan_file(source) ==
    LET end == scan_jsx(source, 0, ScanOrchestrator_new)
    IN [panic |-> end.panic, regions |-> into_regions(end.orchestrator)]

FileEndEvent ==
    [kind |-> "on_file_end", tag_name |-> <<>>, is_self_closing |-> FALSE,
     text |-> <<>>, line |-> 0, raw_tag |-> <<>>]

\* The tokenizer tests' RecordingVisitor: it records every event but
\* on_file_end, without the raw tag and with a comment's text trimmed
RecordingVisitor_visit(events, e) ==
    IF e.kind = "on_file_end" THEN events
    ELSE Append(events, [e EXCEPT !.raw_tag = <<>>,
                                  !.text = IF e.kind = "on_comment" THEN trim(@) ELSE @])

\* A visitor of the given kind handles the event e
JsxVisitor_visit(kind, state, e) ==
    IF kind = "ScanOrchestrator" THEN ScanOrchestrator_visit(state, e)
    ELSE RecordingVisitor_visit(state, e)

\* visitors.iter_mut() in the reverse of the registration order
iter_mut_rev(n, k) == n + 1 - k

\* visitors.iter_mut(): the visitor invoked k-th, of n, is the one registered k-th
iter_mut(n, k) == k

\* ------------------------------------------------------------------ inputs

\* Bound of the model: the number of constructs of a document.
MaxConstructs == 4

\* The constructs a document is made of.  Each is a complete construct of
\* the recognised markup subset, so one iteration of the scanner's main
\* loop consumes exactly it.
OpenC == <<"<","C",">">>    \* <C>
OpenDBg == <<"<","d"," ","c","l","a","s","s","N","a","m","e","=","\"","b","g","-","r","\"",">">>    \* <d className="bg-r">
OpenD == <<"<","d",">">>    \* <d>
OpenDTwice == <<"<","d"," ","c","l","a","s","s","N","a","m","e","=","\"","b","g","-","r","\""," ","c","l","a","s","s","N","a","m","e","=","\"","x","\"",">">>    \* <d className="bg-r" className="x">
SelfClosingTwice == <<"<","i"," ","c","l","a","s","s","N","a","m","e","=","\"","b","g","-","r","\""," ","c","l","a","s","s","N","a","m","e","=","\"","x","\"","/",">">>    \* <i className="bg-r" className="x"/>
OpenSOpacity == <<"<","s"," ","c","l","a","s","s","N","a","m","e","=","\"","o","p","a","c","i","t","y","-","5","0"," ","t","e","x","t","-","w","\"",">">>    \* <s className="opacity-50 text-w">
OpenS == <<"<","s",">">>    \* <s>
OpenCBg == <<"<","C"," ","c","l","a","s","s","N","a","m","e","=","\"","b","g","-","r","\"",">">>    \* <C className="bg-r">
OpenSPercent == <<"<","s"," ","c","l","a","s","s","N","a","m","e","=","\"","o","p","a","c","i","t","y","-","[","1","5","0","%","]","\"",">">>    \* <s className="opacity-[150%]">
OpenSFraction == <<"<","s"," ","c","l","a","s","s","N","a","m","e","=","\"","o","p","a","c","i","t","y","-","[",".","5","]","\"",">">>    \* <s className="opacity-[.5]">
OpenSOver == <<"<","s"," ","c","l","a","s","s","N","a","m","e","=","\"","o","p","a","c","i","t","y","-","1","5","0","\"",">">>    \* <s className="opacity-150">
OpenCNonColor == <<"<","C"," ","c","l","a","s","s","N","a","m","e","=","\"","h","o","v","e","r",":","b","g","-","r"," ","b","g","-","c","o","v","e","r","\"",">">>    \* <C className="hover:bg-r bg-cover">
OpenDNonColor == <<"<","d"," ","c","l","a","s","s","N","a","m","e","=","\"","b","g","-","g","r","a","d","i","e","n","t","-","t","o","-","r"," ","b","g","-","c","l","i","p","-","t","e","x","t"," ","m","d",":","b","g","-","r","\"",">">>    \* <d className="bg-gradient-to-r bg-clip-text md:bg-r">
OpenBDisabled == <<"<","b"," ","d","i","s","a","b","l","e","d"," ","c","l","a","s","s","N","a","m","e","=","\"","t","\"",">">>    \* <b disabled className="t">
OpenDVariant == <<"<","d"," ","c","l","a","s","s","N","a","m","e","=","\"","d","i","s","a","b","l","e","d",":","o","\"",">">>    \* <d className="disabled:o">
SelfClosingC == <<"<","C"," ","c","l","a","s","s","N","a","m","e","=","\"","b","g","-","r"," ","o","p","a","c","i","t","y","-","5","0"," ","t","e","x","t","-","w","\""," ","/",">">>    \* <C className="bg-r opacity-50 text-w" />
SelfClosingI == <<"<","i","/",">">>    \* <i/>
CloseC == <<"<","/","C",">">>    \* </C>
CloseD == <<"<","/","d",">">>    \* </d>
CloseS == <<"<","/","s",">">>    \* </s>
CloseB == <<"<","/","b",">">>    \* </b>
BlockComment == <<"/","*"," ","@","a","1","1","y","-","c","o","n","t","e","x","t","-","b","l","o","c","k"," ","b","g",":","b","g","-","k"," ","*","/">>    \* /* @a11y-context-block bg:bg-k */
ContextComment == <<"/","*"," ","@","a","1","1","y","-","c","o","n","t","e","x","t"," ","b","g",":","b","g","-","o"," ","n","o","-","i","n","h","e","r","i","t"," ","*","/">>    \* /* @a11y-context bg:bg-o no-inherit */
InvalidContextComment == <<"/","*"," ","@","a","1","1","y","-","c","o","n","t","e","x","t"," ","n","o","-","i","n","h","e","r","i","t"," ","*","/">>    \* /* @a11y-context no-inherit */
IgnoreReasonComment == <<"/","*"," ","a","1","1","y","-","i","g","n","o","r","e",":"," ","r"," ","*","/">>    \* /* a11y-ignore: r */
IgnoreComment == <<"/","*"," ","a","1","1","y","-","i","g","n","o","r","e"," ","*","/">>    \* /* a11y-ignore */
ContextFgComment == <<"/","*"," ","@","a","1","1","y","-","c","o","n","t","e","x","t"," ","f","g",":","t","e","x","t","-","w"," ","*","/">>    \* /* @a11y-context fg:text-w */
StandaloneCn == <<"c","n","(","\"","x","\"",")">>    \* cn("x")

\* Documents of nested containers and block annotations
NestedDocs ==
    [opening |-> {OpenC, OpenDBg, OpenD, OpenSOpacity, OpenS, SelfClosingC, SelfClosingI},
     closing |-> {CloseC, CloseD, CloseS},
     comments |-> {BlockComment},
     calls |-> {StandaloneCn}]

\* Documents of single-element annotations and disabled elements
AnnotatedDocs ==
    [opening |-> {OpenDBg, OpenBDisabled, OpenDVariant, SelfClosingI},
     closing |-> {CloseD, CloseB},
     comments |-> {BlockComment, ContextComment, InvalidContextComment,
                   IgnoreReasonComment, IgnoreComment},
     calls |-> {StandaloneCn}]

\* Documents of containers and of tags with background and opacity utilities
ContainerDocs ==
    [opening |-> {OpenC, OpenCBg, OpenCNonColor, OpenDBg, OpenDNonColor, OpenSOpacity},
     closing |-> {CloseC},
     comments |-> {BlockComment},
     calls |-> {StandaloneCn}]

\* Documents of closing tags met with entries on both stacks and annotations
\* pending
ClosingDocs ==
    [opening |-> {OpenDBg, OpenSOpacity},
     closing |-> {CloseD, CloseS, CloseB},
     comments |-> {BlockComment, ContextComment, IgnoreComment},
     calls |-> {StandaloneCn}]

\* Documents of tags with opacity utilities of every accepted form
OpacityDocs ==
    [opening |-> {OpenSOpacity, OpenSPercent, OpenSFraction, OpenSOver},
     closing |-> {CloseS},
     comments |-> {BlockComment},
     calls |-> {StandaloneCn}]

Constructs(docs) == docs.opening \cup docs.closing \cup docs.comments \cup docs.calls

\* One iteration of the scanner's main loop at the start of each construct
\* Documents whose annotations follow one another before a className
OverwriteDocs ==
    [opening |-> {OpenDBg, OpenD, SelfClosingI},
     closing |-> {CloseD},
     comments |-> {ContextComment, ContextFgComment, InvalidContextComment,
                   IgnoreReasonComment, IgnoreComment},
     calls |-> {StandaloneCn}]

\* Documents of tags that carry two className attributes
CaptureDocs ==
    [opening |-> {OpenDTwice, SelfClosingTwice, OpenD},
     closing |-> {CloseD},
     comments |-> {BlockComment},
     calls |-> {StandaloneCn}]

ScanOf ==
    [c \in Constructs(NestedDocs) \cup Constructs(AnnotatedDocs)
            \cup Constructs(ContainerDocs) \cup Constructs(ClosingDocs)
            \cup Constructs(OpacityDocs) \cup Constructs(OverwriteDocs)
            \cup Constructs(CaptureDocs) |->
        scan_step(c, 0, build_line_offsets(c))]

\* ------------------------------------------------------------------ state

VARIABLES
    orch,       \* the ScanOrchestrator: its trackers, the capture and the Regions
    queue,      \* class-attribute events of the tag being scanned, not yet dispatched
    constructs, \* the number of constructs scanned
    last,       \* the event dispatched last (history)
    elems,      \* the document's open elements, innermost last (history)
    nested,     \* every closing tag so far closed the innermost open element (history)
    since,      \* the annotations seen since the last class-attribute event (history)
    source,     \* scan_jsx's source text, when one whole text is scanned
    pos,        \* scan_jsx's cursor i into source
    status,     \* scan_file's progress: "scanning", "returned" or "panicked"
    engine,     \* extract_and_scan: its files, their workers and its output
    fanout,     \* scan_jsx with several visitors: the visitors and whose turn it is
    tag_scan,   \* the opening-tag branch's two scans of one tag, from one offset
    disabled_check  \* is_disabled_tag called on one raw tag: the tag and the answer

vars == <<orch, queue, constructs, last, elems, nested, since, source, pos, status, engine, fanout,
         tag_scan, disabled_check>>
history == <<constructs, last, elems, nested, since>>
whole_text == <<source, pos, status>>
probes == <<tag_scan, disabled_check>>
several == <<engine, fanout, probes>>

\* Views of the orchestrator's state
tracker == orch.context_tracker
regions == orch.class_extractor.regions
pending_block == orch.context_tracker.pending_block_override
pending_context == orch.annotation_parser.pending_context
pending_ignore == orch.annotation_parser.pending_ignore
color_stack == orch.current_color.color_stack

\* What an element establishes as background for its descendants: its own
\* explicit bg utility, else its container class, else the block annotation
\* that precedes it.
established(tag_name, raw_tag, block) ==
    LET explicit_bg == find_explicit_bg_in_raw_tag(raw_tag) IN
    IF IsSome(explicit_bg) THEN explicit_bg
    ELSE IF tag_name \in DOMAIN container_config THEN Some(container_config[tag_name])
    ELSE block

\* The opacity multiplier an opening tag carries: 0.5 for opacity-50 and
\* opacity-[.5], 1.5 for opacity-[150%], else 1.0
multiplier(chunk) ==
    IF chunk \in {OpenSOpacity, SelfClosingC, OpenSFraction} THEN (Scale * 50) \div 100
    ELSE IF chunk = OpenSPercent THEN (Scale * 150) \div 100
    ELSE Scale

\* The non-variant text-color utility an opening tag carries
text_color(chunk) ==
    IF chunk \in {OpenSOpacity, SelfClosingC} THEN Some(<<"t","e","x","t","-","w">>) ELSE None

\* The product of the opacity multipliers of the open elements
RECURSIVE enclosing_opacity(_)
enclosing_opacity(es) ==
    IF es = <<>> THEN Scale
    ELSE (enclosing_opacity(SubSeq(es, 1, Len(es) - 1)) * es[Len(es)].mult) \div Scale

\* The background of the nearest enclosing open element that established one
RECURSIVE enclosing_bg(_)
enclosing_bg(es) ==
    IF es = <<>> THEN DefaultBg
    ELSE IF IsSome(es[Len(es)].est) THEN es[Len(es)].est.val
    ELSE enclosing_bg(SubSeq(es, 1, Len(es) - 1))

\* The event e, dispatched.  first: it is the first className of its tag;
\* block: the block override pending when the tag opened; bg_before: the
\* background in effect for the tag itself, after a pending block override
\* took effect and before the tag's own update.
Dispatched(e, first, block, bg_before) ==
    [kind |-> e.kind, tag_name |-> e.tag_name, raw_tag |-> e.raw_tag,
     is_self_closing |-> e.is_self_closing, text |-> e.text, first |-> first,
     block |-> block, bg_before |-> bg_before]

NoEvent ==
    [kind |-> "none", tag_name |-> <<>>, raw_tag |-> <<>>, is_self_closing |-> FALSE,
     text |-> <<>>, first |-> FALSE, block |-> None, bg_before |-> DefaultBg]

\* context, ignore: an @a11y-context / a11y-ignore comment came; bare: the
\* latest a11y-ignore comment gave no reason; override, reason: what the
\* latest valid @a11y-context / the latest a11y-ignore comment said;
\* overwrote: one of them came while an earlier one of its kind was still
\* unconsumed; across: a tag opened or closed while one was unconsumed;
\* replaced, carried: overwrote, across of the interval that the last
\* class-attribute event ended
NoAnnotation ==
    [context |-> FALSE, ignore |-> FALSE, bare |-> FALSE, override |-> None,
     reason |-> None, overwrote |-> FALSE, across |-> FALSE, replaced |-> FALSE,
     carried |-> FALSE]

\* The history after a tag event, after a class-attribute event
after_tag(s) == [s EXCEPT !.across = @ \/ s.context \/ s.ignore]
after_class_attribute(s) ==
    [NoAnnotation EXCEPT !.replaced = s.overwrote, !.carried = s.across]

\* What the comment chunk says, read off the chunk's text
said_override(chunk) ==
    IF chunk = ContextComment
    THEN Some([bg |-> Some(<<"b","g","-","o">>), fg |-> None, no_inherit |-> TRUE])
    ELSE IF chunk = ContextFgComment
    THEN Some([bg |-> None, fg |-> Some(<<"t","e","x","t","-","w">>), no_inherit |-> FALSE])
    ELSE None
said_reason(chunk) ==
    IF chunk = IgnoreReasonComment THEN Some(<<"r">>)
    ELSE IF chunk = IgnoreComment THEN Some(<<>>)
    ELSE None

\* No extract_and_scan call, no scan_jsx call with several visitors
NoEngine == [files |-> <<>>, workers |-> <<>>, output |-> [state |-> "running", entries |-> <<>>]]
NoFanout == [visitors |-> <<>>, turn |-> 1]
\* is_disabled_tag not called yet
NoDisabledCheck == [attrs |-> <<>>, raw_tag |-> <<>>, checked |-> FALSE, is_disabled |-> FALSE]
\* No tag scanned yet
NoTagScan == [from_pos |-> 0, is_self_closing |-> FALSE, tag_close |-> 0, stop |-> "none"]

Init ==
    /\ orch = ScanOrchestrator_new
    /\ queue = <<>>
    /\ constructs = 0
    /\ last = NoEvent
    /\ elems = <<>>
    /\ nested = TRUE
    /\ since = NoAnnotation
    /\ source = <<>>
    /\ pos = 0
    /\ status = "scanning"
    /\ engine = NoEngine
    /\ fanout = NoFanout
    /\ tag_scan = NoTagScan
    /\ disabled_check = NoDisabledCheck

\* The scanner is at the start of a construct, with room for one more
AtConstruct ==
    /\ UNCHANGED <<whole_text, several>>
    /\ queue = <<>>
    /\ constructs < MaxConstructs
    /\ constructs' = constructs + 1

\* scan_jsx, opening-tag branch: on_tag_open is dispatched, the tag's
\* class-attribute events follow before the scan resumes after the tag.
ScanOpeningTag(docs) ==
    \E chunk \in docs.opening :
        LET st == ScanOf[chunk]
            e == st.events[1]
            open == ~e.is_self_closing
        IN /\ AtConstruct
           /\ st.i = Len(chunk)
           /\ orch' = ScanOrchestrator_on_tag_open(orch, e.tag_name, e.is_self_closing,
                                                   e.raw_tag)
           /\ queue' = Tail(st.events)
           /\ last' = Dispatched(e, FALSE, pending_block,
                                 IF open /\ IsSome(pending_block) THEN pending_block.val
                                 ELSE current_bg(tracker))
           /\ elems' = IF open /\ nested
                       THEN Append(elems,
                                   [name |-> e.tag_name,
                                    est |-> established(e.tag_name, e.raw_tag,
                                                        pending_block),
                                    block |-> pending_block,
                                    before |-> current_bg(tracker),
                                    mult |-> multiplier(chunk),
                                    opacity_before |-> current_opacity(tracker),
                                    color |-> text_color(chunk)])
                       ELSE elems
           /\ since' = after_tag(since)
           /\ UNCHANGED nested

\* scan_tag_attributes: the next className= of the tag is dispatched
ClassAttribute ==
    /\ queue /= <<>>
    /\ LET e == Head(queue) IN
       /\ orch' = ScanOrchestrator_on_class_attribute(orch, e.text, e.line, e.raw_tag)
       /\ last' = Dispatched(e, last.kind = "on_tag_open", None, DefaultBg)
    /\ queue' = Tail(queue)
    /\ since' = after_class_attribute(since)
    /\ UNCHANGED <<constructs, elems, nested, whole_text, several>>

\* scan_jsx, closing-tag branch
ScanClosingTag(docs) ==
    \E chunk \in docs.closing :
        LET st == ScanOf[chunk]
            e == st.events[1]
            matched == elems /= <<>> /\ elems[Len(elems)].name = e.tag_name
        IN /\ AtConstruct
           /\ st.i = Len(chunk)
           /\ orch' = ScanOrchestrator_on_tag_close(orch, e.tag_name)
           /\ last' = Dispatched(e, FALSE, None, DefaultBg)
           /\ nested' = (nested /\ matched)
           /\ elems' = IF nested /\ matched THEN SubSeq(elems, 1, Len(elems) - 1) ELSE <<>>
           /\ since' = after_tag(since)
           /\ UNCHANGED queue

\* scan_jsx, block-comment branch
ScanComment(docs) ==
    \E chunk \in docs.comments :
        LET st == ScanOf[chunk]
            e == st.events[1]
        IN /\ AtConstruct
           /\ st.i = Len(chunk) /\ ~st.panic
           /\ orch' = ScanOrchestrator_on_comment(orch, e.text)
           /\ last' = Dispatched(e, FALSE, None, DefaultBg)
           /\ since' = [context |-> since.context
                                    \/ chunk \in {ContextComment, ContextFgComment},
                        ignore |-> since.ignore
                                   \/ chunk \in {IgnoreReasonComment, IgnoreComment},
                        bare |-> IF chunk = IgnoreComment THEN TRUE
                                 ELSE IF chunk = IgnoreReasonComment THEN FALSE
                                 ELSE since.bare,
                        override |-> IF IsSome(said_override(chunk))
                                     THEN said_override(chunk) ELSE since.override,
                        reason |-> IF IsSome(said_reason(chunk))
                                   THEN said_reason(chunk) ELSE since.reason,
                        overwrote |-> \/ since.overwrote
                                      \/ IsSome(said_override(chunk)) /\ IsSome(since.override)
                                      \/ IsSome(said_reason(chunk)) /\ IsSome(since.reason),
                        across |-> since.across,
                        replaced |-> since.replaced,
                        carried |-> since.carried]
           /\ UNCHANGED <<queue, elems, nested>>

\* scan_jsx, standalone cn( / clsx( / cva( branch
ScanStandaloneCall(docs) ==
    \E chunk \in docs.calls :
        LET st == ScanOf[chunk]
            e == st.events[1]
        IN /\ AtConstruct
           /\ st.i = Len(chunk)
           /\ orch' = ScanOrchestrator_on_class_attribute(orch, e.text, e.line, e.raw_tag)
           /\ last' = Dispatched(e, FALSE, None, DefaultBg)
           /\ since' = after_class_attribute(since)
           /\ UNCHANGED <<queue, elems, nested>>

Scan(docs) ==
    \/ ScanOpeningTag(docs)
    \/ ClassAttribute
    \/ ScanClosingTag(docs)
    \/ ScanComment(docs)
    \/ ScanStandaloneCall(docs)

Next == Scan(NestedDocs)
NextAnnotated == Scan(AnnotatedDocs)

\* scan_file over documents of nested containers and block annotations
Spec == Init /\ [][Next]_vars
\* scan_file over documents of annotated and disabled elements
SpecAnnotated == Init /\ [][NextAnnotated]_vars

NextClosing == Scan(ClosingDocs)
\* scan_file over documents of closing tags
SpecClosing == Init /\ [][NextClosing]_vars

NextCapture == Scan(CaptureDocs)
\* scan_file over documents of tags with two className attributes
SpecCapture == Init /\ [][NextCapture]_vars

NextOverwrite == Scan(OverwriteDocs)
\* scan_file over documents of successive annotations
SpecOverwrite == Init /\ [][NextOverwrite]_vars

NextOpacity == Scan(OpacityDocs)
\* scan_file over documents of opacity utilities
SpecOpacity == Init /\ [][NextOpacity]_vars

NextContainers == Scan(ContainerDocs)
\* scan_file over documents of containers and background utilities
SpecContainers == Init /\ [][NextContainers]_vars

\* ------------------------------------------------------------------ whole texts

\* Bound of the model: the number of pieces a source text is made of.
MaxPieces == 3

NL == <<"\n">>
TwoClassTag == <<"<","d"," ","c","l","a","s","s","N","a","m","e","=","\"","a","\"","\n","c","l","a","s","s","N","a","m","e","=","\"","b","g","-","r","\"",">">>    \* <d className="a"\nclassName="bg-r">
SelfClosingClass == <<"<","i"," ","c","l","a","s","s","N","a","m","e","=","\"","t","\"","/",">">>    \* <i className="t"/>
LineComment == <<"/","/"," ","a","1","1","y","-","i","g","n","o","r","e">>    \* // a11y-ignore
BlockCommentLines == <<"/","*"," ","@","a","1","1","y","-","c","o","n","t","e","x","t","-","b","l","o","c","k"," ","b","g",":","b","g","-","k","\n","*","/">>    \* /* @a11y-context-block bg:bg-k\n*/
OpenComment == <<"/","*">>    \* /*
EmbeddedTag == <<"<","d"," ","a","=","{","c","n","(","\"","x","\"",")","/","*","c","*","/","}",">">>    \* <d a={cn("x")/*c*/}>

Pieces ==
    {NL, TwoClassTag, SelfClosingClass, CloseD, StandaloneCn, LineComment,
     BlockCommentLines, OpenComment, EmbeddedTag}

RECURSIVE Concat(_)
Concat(ps) == IF ps = <<>> THEN <<>> ELSE Head(ps) \o Concat(Tail(ps))

Sources == {Concat(ps) : ps \in UNION {[1..n -> Pieces] : n \in 0..MaxPieces}}

InitScan ==
    /\ orch = ScanOrchestrator_new
    /\ queue = <<>>
    /\ constructs = 0
    /\ last = NoEvent
    /\ elems = <<>>
    /\ nested = TRUE
    /\ since = NoAnnotation
    /\ source \in Sources
    /\ pos = 0
    /\ status = "scanning"
    /\ engine = NoEngine
    /\ fanout = NoFanout
    /\ tag_scan = NoTagScan
    /\ disabled_check = NoDisabledCheck

\* One iteration of scan_jsx's main loop: its events are emitted in order
\* and the cursor moves on.
ScanIteration ==
    /\ status = "scanning" /\ queue = <<>> /\ pos < Len(source)
    /\ LET st == scan_step(source, pos, build_line_offsets(source)) IN
       /\ ~st.panic
       /\ queue' = st.events
       /\ pos' = st.i
    /\ UNCHANGED <<orch, history, source, status, several>>

\* An iteration of the main loop slices the source out of range: the
\* thread panics and scan_file returns nothing.
ScanPanic ==
    /\ status = "scanning" /\ queue = <<>> /\ pos < Len(source)
    /\ scan_step(source, pos, build_line_offsets(source)).panic
    /\ status' = "panicked"
    /\ UNCHANGED <<orch, queue, history, source, pos, several>>

\* The event at the head of the queue, of the given kind, reaches the visitor
Emitted(kind) ==
    /\ status = "scanning" /\ queue /= <<>> /\ Head(queue).kind = kind
    /\ queue' = Tail(queue)
    /\ UNCHANGED <<history, whole_text, several>>

EmitTagOpen ==
    /\ Emitted("on_tag_open")
    /\ LET e == Head(queue) IN
       orch' = ScanOrchestrator_on_tag_open(orch, e.tag_name, e.is_self_closing, e.raw_tag)

EmitClassAttribute ==
    /\ Emitted("on_class_attribute")
    /\ LET e == Head(queue) IN
       orch' = ScanOrchestrator_on_class_attribute(orch, e.text, e.line, e.raw_tag)

EmitTagClose ==
    /\ Emitted("on_tag_close")
    /\ orch' = ScanOrchestrator_on_tag_close(orch, Head(queue).tag_name)

EmitComment ==
    /\ Emitted("on_comment")
    /\ orch' = ScanOrchestrator_on_comment(orch, Head(queue).text)

\* The main loop ends: on_file_end, then scan_file returns into_regions()
FileEnd ==
    /\ status = "scanning" /\ queue = <<>> /\ pos >= Len(source)
    /\ status' = "returned"
    /\ UNCHANGED <<orch, queue, history, source, pos, several>>

NextScan ==
    \/ ScanIteration
    \/ ScanPanic
    \/ EmitTagOpen
    \/ EmitClassAttribute
    \/ EmitTagClose
    \/ EmitComment
    \/ FileEnd

\* scan_file over one whole source text
SpecScan == InitScan /\ [][NextScan]_vars

\* ------------------------------------------------------------------ several files

\* Bound of the model: the number of files handed to extract_and_scan.
MaxFiles == 2

Paths == <<"a.tsx", "b.tsx", "c.tsx">>

FileContents ==
    {BlockCommentLines, TwoClassTag, BlockCommentLines \o TwoClassTag, OpenComment}

\* ExtractOptions.file_contents: path and content of each file
FileInputs ==
    {[k \in 1..n |-> [path |-> Paths[k], content |-> cs[k]]] :
        n \in 0..MaxFiles, cs \in [1..MaxFiles -> FileContents]}

\* The closure of par_iter().map for one file, before it starts
NewWorker ==
    [orchestrator |-> ScanOrchestrator_new, pos |-> 0, queue |-> <<>>,
     status |-> "scanning", regions |-> <<>>]

InitEngine ==
    /\ orch = ScanOrchestrator_new
    /\ queue = <<>>
    /\ constructs = 0
    /\ last = NoEvent
    /\ elems = <<>>
    /\ nested = TRUE
    /\ since = NoAnnotation
    /\ source = <<>>
    /\ pos = 0
    /\ status = "scanning"
    /\ fanout = NoFanout
    /\ tag_scan = NoTagScan
    /\ disabled_check = NoDisabledCheck
    /\ \E fs \in FileInputs :
          engine = [files |-> fs,
                    workers |-> [k \in 1..Len(fs) |-> NewWorker],
                    output |-> [state |-> "running", entries |-> <<>>]]

\* Worker k takes a step: the rest of the state stays
Working(k, w) ==
    /\ engine.output.state = "running"
    /\ engine' = [engine EXCEPT !.workers[k] = w]
    /\ UNCHANGED <<orch, queue, history, whole_text, fanout, probes>>

\* One iteration of scan_jsx's main loop in the worker of file k
WorkerIteration ==
    \E k \in 1..Len(engine.files) :
        LET w == engine.workers[k]
            content == engine.files[k].content
            st == scan_step(content, w.pos, build_line_offsets(content))
        IN /\ w.status = "scanning" /\ w.queue = <<>> /\ w.pos < Len(content)
           /\ ~st.panic
           /\ Working(k, [w EXCEPT !.queue = st.events, !.pos = st.i])

\* The worker of file k slices its source out of range and panics
WorkerPanic ==
    \E k \in 1..Len(engine.files) :
        LET w == engine.workers[k]
            content == engine.files[k].content
        IN /\ w.status = "scanning" /\ w.queue = <<>> /\ w.pos < Len(content)
           /\ scan_step(content, w.pos, build_line_offsets(content)).panic
           /\ Working(k, [w EXCEPT !.status = "panicked"])

\* The next event of file k reaches that file's orchestrator
WorkerVisit ==
    \E k \in 1..Len(engine.files) :
        LET w == engine.workers[k] IN
        /\ w.status = "scanning" /\ w.queue /= <<>>
        /\ Working(k, [w EXCEPT !.orchestrator = ScanOrchestrator_visit(@, Head(w.queue)),
                                !.queue = Tail(@)])

\* scan_file of file k returns its Regions
WorkerReturn ==
    \E k \in 1..Len(engine.files) :
        LET w == engine.workers[k] IN
        /\ w.status = "scanning" /\ w.queue = <<>>
        /\ w.pos >= Len(engine.files[k].content)
        /\ Working(k, [w EXCEPT !.status = "returned",
                                !.regions = into_regions(w.orchestrator)])

\* collect(): every closure returned, the entries are in the order of the files
Collect ==
    /\ engine.output.state = "running"
    /\ \A k \in 1..Len(engine.files) : engine.workers[k].status = "returned"
    /\ engine' = [engine EXCEPT !.output =
                     [state |-> "collected",
                      entries |-> [k \in 1..Len(engine.files) |->
                                      [path |-> engine.files[k].path,
                                       regions |-> engine.workers[k].regions]]]]
    /\ UNCHANGED <<orch, queue, history, whole_text, fanout, probes>>

\* A closure panicked: the panic is propagated to the caller of
\* extract_and_scan, which returns nothing
Unwind ==
    /\ engine.output.state = "running"
    /\ \E k \in 1..Len(engine.files) : engine.workers[k].status = "panicked"
    /\ engine' = [engine EXCEPT !.output = [state |-> "panicked", entries |-> <<>>]]
    /\ UNCHANGED <<orch, queue, history, whole_text, fanout, probes>>

NextEngine ==
    \/ WorkerIteration
    \/ WorkerPanic
    \/ WorkerVisit
    \/ WorkerReturn
    \/ Collect
    \/ Unwind

\* extract_and_scan over several files, their workers interleaved
SpecEngine == InitEngine /\ [][NextEngine]_vars

\* ------------------------------------------------------------------ several visitors

\* Bound of the model: the number of visitors registered with scan_jsx.
MaxVisitors == 2

VisitedPieces == {TwoClassTag, CloseD, LineComment, OpenComment}

VisitedSources ==
    {Concat(ps) : ps \in UNION {[1..n -> VisitedPieces] : n \in 0..MaxPieces}}

\* A visitor as registered: its state, and the events it received (history)
NewVisitor(kind) ==
    [kind |-> kind,
     state |-> IF kind = "ScanOrchestrator" THEN ScanOrchestrator_new ELSE <<>>,
     received |-> <<>>]

Registrations ==
    UNION {[1..n -> {NewVisitor("ScanOrchestrator"), NewVisitor("RecordingVisitor")}] :
              n \in 1..MaxVisitors}

InitVisitors ==
    /\ orch = ScanOrchestrator_new
    /\ queue = <<>>
    /\ constructs = 0
    /\ last = NoEvent
    /\ elems = <<>>
    /\ nested = TRUE
    /\ since = NoAnnotation
    /\ source \in VisitedSources
    /\ pos = 0
    /\ status = "scanning"
    /\ engine = NoEngine
    /\ \E vs \in Registrations : fanout = [visitors |-> vs, turn |-> 1]
    /\ tag_scan = NoTagScan
    /\ disabled_check = NoDisabledCheck

\* The visitor whose turn it is receives the event e
Visited(e) ==
    LET k == iter_mut(Len(fanout.visitors), fanout.turn)
        v == fanout.visitors[k]
    IN [visitors |-> [fanout.visitors EXCEPT ![k] =
                         [kind |-> v.kind,
                          state |-> JsxVisitor_visit(v.kind, v.state, e),
                          received |-> Append(v.received, e)]],
        turn |-> IF fanout.turn = Len(fanout.visitors) THEN 1 ELSE fanout.turn + 1]

\* for v in visitors.iter_mut(): the event at the head of the queue reaches
\* the next visitor; after the last visitor the scan goes on
Deliver ==
    /\ status = "scanning" /\ queue /= <<>>
    /\ fanout' = Visited(Head(queue))
    /\ queue' = IF fanout.turn = Len(fanout.visitors) THEN Tail(queue) ELSE queue
    /\ UNCHANGED <<orch, history, whole_text, engine, probes>>

\* The main loop ended: on_file_end reaches the next visitor; after the
\* last visitor scan_jsx returns
DeliverFileEnd ==
    /\ status = "scanning" /\ queue = <<>> /\ pos >= Len(source)
    /\ fanout' = Visited(FileEndEvent)
    /\ status' = IF fanout.turn = Len(fanout.visitors) THEN "returned" ELSE status
    /\ UNCHANGED <<orch, queue, history, source, pos, engine, probes>>

NextVisitors ==
    \/ ScanIteration
    \/ ScanPanic
    \/ Deliver
    \/ DeliverFileEnd

\* scan_jsx over one source text with several visitors registered
SpecVisitors == InitVisitors /\ [][NextVisitors]_vars

\* ------------------------------------------------------------------ one tag, two scans

\* Bound of the model: the length of the text after a tag name.
MaxTagLen == 5

\* The bytes that the two scans tell apart
TagBytes == {"'", "/", ">", "{", "}", "\"", "\\"}

TagTexts == UNION {[1..n -> TagBytes] : n \in 0..MaxTagLen}

InitTagScan ==
    /\ orch = ScanOrchestrator_new
    /\ queue = <<>>
    /\ constructs = 0
    /\ last = NoEvent
    /\ elems = <<>>
    /\ nested = TRUE
    /\ since = NoAnnotation
    /\ source \in TagTexts
    /\ pos = 0
    /\ status = "scanning"
    /\ engine = NoEngine
    /\ fanout = NoFanout
    /\ tag_scan = NoTagScan
    /\ disabled_check = NoDisabledCheck

\* scan_jsx, opening-tag branch: find_tag_close and is_self_closing_tag scan
\* the same text from the same offset
ScanTag ==
    /\ \E name_end \in 0..Len(source) :
           tag_scan' = [from_pos |-> name_end,
                        is_self_closing |-> is_self_closing_tag(source, name_end),
                        tag_close |-> find_tag_close(source, name_end),
                        stop |-> tag_close_stop(source, name_end)]
    /\ UNCHANGED <<orch, queue, history, whole_text, engine, fanout, disabled_check>>

NextTagScan == ScanTag

\* The two scans of the opening-tag branch, over every text and offset
SpecTagScan == InitTagScan /\ [][NextTagScan]_vars


\* ------------------------------------------------------------------ properties

\* The step dispatched a class-attribute event
ClassAttributeStep == last'.kind = "on_class_attribute"
\* The step dispatched the first className of the tag opened just before
FirstClassNameStep == ClassAttributeStep /\ last'.first
\* The step dispatched the opening of a self-closing tag
SelfClosingStep == last'.kind = "on_tag_open" /\ last'.is_self_closing
\* The Region built last
last_region == regions[Len(regions)]
\* The step appended one Region
Appended == Len(regions') = Len(regions) + 1 /\ SubSeq(regions', 1, Len(regions)) = regions

BgR == <<"b","g","-","r">>    \* bg-r
BgK == <<"b","g","-","k">>    \* bg-k
BgO == <<"b","g","-","o">>    \* bg-o
ReasonR == <<"r">>    \* r

\* C1: each class-attribute event the scanner emits appends one Region, with
\* the event's text and line, to the Regions recorded so far; no other step
\* touches the Regions; and the Regions' start lines never decrease.
C1_OneRegionPerEvent ==
    [][IF queue /= <<>> /\ Head(queue).kind = "on_class_attribute"
       THEN /\ Appended
            /\ regions'[Len(regions')].content = Head(queue).text
            /\ regions'[Len(regions')].start_line = Head(queue).line
            /\ \A k \in 1..Len(regions) :
                   regions[k].start_line <= regions'[Len(regions')].start_line
       ELSE regions' = regions]_vars

\* C1 happens: scan_file returned three Regions, from two className attributes
\* on different lines of one tag and a later standalone call.
C1_Witness ==
    /\ status = "returned"
    /\ Len(regions) = 3
    /\ regions[1].start_line < regions[2].start_line
    /\ regions[2].start_line < regions[3].start_line
    /\ regions[2].content = BgR
    /\ regions[3].content = <<"\"","x","\"">>    \* "x"

\* C2: the Region of the first className of an opening tag carries the
\* background that was current immediately before that tag's own update,
\* after a pending block override took effect.
C2_FirstClassNameSeesParent ==
    [][FirstClassNameStep =>
          Appended /\ regions'[Len(regions')].context_bg = last.bg_before]_vars

\* C2 happens: inside a container, an element with an explicit bg and an
\* earlier capture left unused; its Region carries the container's background
\* and the tracker now carries the element's own.
C2_Witness ==
    /\ last.kind = "on_class_attribute" /\ last.first
    /\ Len(elems) = 2
    /\ last_region.context_bg = BgCard
    /\ current_bg(tracker) = BgR

\* The background a class-attribute event should see in a properly nested
\* document: its tag's block annotation, else the background of the nearest
\* enclosing open element that established one, else the default.
expected_bg ==
    IF queue /= <<>> /\ last.kind = "on_tag_open" /\ ~last.is_self_closing
    THEN (IF IsSome(last.block) THEN last.block.val
          ELSE enclosing_bg(SubSeq(elems, 1, Len(elems) - 1)))
    ELSE enclosing_bg(elems)

\* No entry of the context stack comes from a block annotation
no_annotation_entry == \A k \in 1..Len(tracker.stack) : ~tracker.stack[k].is_annotation

\* C3: in a properly nested document every class-attribute event gets the
\* background of its nearest enclosing open element that established one
\* (stated here for the events that no block annotation's entry precedes).
C3_NearestEnclosingBackground ==
    [][(ClassAttributeStep /\ nested /\ no_annotation_entry) =>
          regions'[Len(regions')].context_bg = expected_bg]_vars

\* C4: once every opened tag is closed in matched order, the current
\* background is the default and the current opacity is 1.0.
C4_BalancedStack ==
    (last.kind = "on_tag_close" /\ nested /\ elems = <<>>) =>
        (current_bg(tracker) = DefaultBg /\ current_opacity(tracker) = Scale)

\* C5: immediately after a block-annotated element closes, the current
\* background is what it was immediately before the element opened.
C5_BlockScopeEndsAtClose ==
    [][(last'.kind = "on_tag_close" /\ nested /\ nested'
        /\ IsSome(elems[Len(elems)].block)) =>
          current_bg(tracker') = elems[Len(elems)].before]_vars

\* C6: the first className Region of an element that a block annotation
\* applies to carries the block annotation's background.
C6_BlockIsParentContext ==
    [][(FirstClassNameStep /\ ~last.is_self_closing /\ IsSome(last.block)) =>
          regions'[Len(regions')].context_bg = last.block.val]_vars

\* C6 happens: a block-annotated element with an explicit bg, inside a
\* container; its Region carries the annotation's background.
C6_Witness ==
    /\ last.kind = "on_class_attribute" /\ last.first
    /\ Len(elems) = 2
    /\ IsSome(elems[2].block)
    /\ elems[2].est = Some(BgR)
    /\ elems[1].est = Some(BgCard)
    /\ last_region.context_bg = BgK

\* C7: a Region carries a context override exactly when an @a11y-context
\* comment came since the previous class-attribute event, an annotation's
\* suppression exactly when an a11y-ignore comment did, and both pending
\* slots are empty after every class-attribute event.
C7_AnnotationOneShot ==
    [][ClassAttributeStep =>
          LET r == regions'[Len(regions')] IN
          /\ Appended
          /\ IsSome(r.context_override_bg) = since.context
          /\ (IsSome(r.ignore_reason) /\ r.ignore_reason.val /= S_disabled_reason)
                 = since.ignore
          /\ IsNone(pending_context') /\ IsNone(pending_ignore')]_vars

\* C7 happens: a Region with an override and a suppression is followed by a
\* Region with neither.
C7_Witness ==
    /\ last.kind = "on_class_attribute"
    /\ Len(regions) = 2
    /\ regions[1].context_override_bg = Some(BgO)
    /\ regions[1].ignore_reason = Some(ReasonR)
    /\ IsNone(regions[2].context_override_bg)
    /\ IsNone(regions[2].ignore_reason)

\* C8: a self-closing opening tag leaves a pending block override pending.
C8_SelfClosingKeepsPendingBlock ==
    [][SelfClosingStep => pending_block' = pending_block]_vars

\* C9: a self-closing opening tag leaves the context stack and the
\* text-color stack as they were.
C9_SelfClosingLeavesStacks ==
    [][SelfClosingStep =>
          /\ tracker'.stack = tracker.stack
          /\ color_stack' = color_stack
          /\ current_bg(tracker') = current_bg(tracker)
          /\ current_opacity(tracker') = current_opacity(tracker)
          /\ current_color(orch'.current_color) = current_color(orch.current_color)]_vars

\* C9 happens: a self-closing configured container with bg, opacity and
\* text-color utilities was opened inside an element with a background.
C9_Witness ==
    /\ last.kind = "on_tag_open" /\ last.is_self_closing
    /\ queue /= <<>>
    /\ IsSome(find_explicit_bg_in_raw_tag(queue[1].raw_tag))
    /\ IsSome(find_opacity_in_raw_tag(queue[1].raw_tag))
    /\ IsSome(find_text_color_in_raw_tag(queue[1].raw_tag))
    /\ tracker.stack /= <<>>
    /\ color_stack /= <<>>

\* The class-attribute event about to be dispatched is on a disabled tag or
\* carries a disabled: variant
next_is_disabled ==
    /\ queue /= <<>>
    /\ is_disabled_tag(queue[1].raw_tag) \/ has_disabled_variant(queue[1].text)

\* C10: on a disabled element a pending a11y-ignore gives the Region its
\* reason ("suppressed" if it gave none); the disabled-element default is
\* the reason only when no a11y-ignore is pending.
C10_ExplicitReasonWins ==
    [][(ClassAttributeStep /\ next_is_disabled) =>
          LET r == regions'[Len(regions')] IN
          IF IsSome(pending_ignore)
          THEN r.ignore_reason = Some(IF pending_ignore.val = <<>> THEN S_suppressed
                                      ELSE pending_ignore.val)
          ELSE r.ignore_reason = Some(S_disabled_reason)]_vars

\* C10 happens: Regions of disabled elements, one with the annotation's reason,
\* one with the disabled-element default.
C10_Witness ==
    /\ last.kind = "on_class_attribute"
    /\ Len(regions) = 2
    /\ regions[1].content = <<"t">>
    /\ regions[1].ignore_reason = Some(ReasonR)
    /\ regions[2].content = <<"d","i","s","a","b","l","e","d",":","o">>    \* disabled:o
    /\ regions[2].ignore_reason = Some(S_disabled_reason)


\* C11: in the Region a class-attribute event builds, ignored is true exactly
\* when ignore_reason is present and a present reason is not empty; after an
\* a11y-ignore comment without a reason the Region is ignored with reason
\* "suppressed"; with no a11y-ignore comment and no disabled signal both
\* fields are absent.
C11_SuppressionFieldsAgree ==
    [][ClassAttributeStep =>
          LET r == regions'[Len(regions')] IN
          /\ IsSome(r.ignored) = IsSome(r.ignore_reason)
          /\ IsSome(r.ignored) => r.ignored.val
          /\ IsSome(r.ignore_reason) => r.ignore_reason.val /= <<>>
          /\ (since.ignore /\ since.bare) =>
                (r.ignored = Some(TRUE) /\ r.ignore_reason = Some(S_suppressed))
          /\ (~since.ignore /\ ~next_is_disabled) =>
                (IsNone(r.ignored) /\ IsNone(r.ignore_reason))]_vars

\* C11 happens: a Region after a bare a11y-ignore comment, ignored with
\* reason "suppressed", then a Region of an enabled element with neither field.
C11_Witness ==
    /\ last.kind = "on_class_attribute"
    /\ Len(regions) = 2
    /\ regions[1].ignored = Some(TRUE)
    /\ regions[1].ignore_reason = Some(S_suppressed)
    /\ regions[2].content = BgR
    /\ IsNone(regions[2].ignored)
    /\ IsNone(regions[2].ignore_reason)

\* C12: in a properly nested document, after a non-self-closing tag opens the
\* current opacity is the product of the opacity multipliers of the open
\* elements, and after the innermost element with an opacity utility closes
\* it is what it was before that element opened.
C12_NestedOpacityMultiplies ==
    [][/\ (last'.kind = "on_tag_open" /\ ~last'.is_self_closing /\ nested) =>
             current_opacity(tracker') = enclosing_opacity(elems')
       /\ (last'.kind = "on_tag_close" /\ nested /\ nested'
           /\ elems[Len(elems)].mult /= Scale) =>
             current_opacity(tracker') = elems[Len(elems)].opacity_before]_vars

\* C13: the Region of every class-attribute event carries the tracker's
\* current opacity when that is below 0.999, and none otherwise.
C13_RegionCarriesOpacity ==
    [][ClassAttributeStep =>
          regions'[Len(regions')].effective_opacity =
              IF current_opacity(tracker) < OpaqueThreshold
              THEN Some(current_opacity(tracker)) ELSE None]_vars

\* C14: whatever the input text, the scan never aborts: no iteration of the
\* main loop slices the source out of range.
C14_ScanNeverAborts == status /= "panicked"

\* C15: every step of the scan strictly advances the cursor or delivers one
\* pending event, and the scan ends only at the end of input with every
\* event delivered, by on_file_end and the return of scan_file.
C15_ScanTerminates ==
    [][/\ (status' = "scanning") =>
             (pos' > pos \/ (pos' = pos /\ Len(queue') < Len(queue)))
       /\ (status' /= "scanning") =>
             (status' = "returned" /\ pos >= Len(source) /\ queue = <<>>)]_vars

\* The explicit background colour class an opening tag of the documents
\* carries: variant-prefixed, gradient and non-colour bg utilities are none.
explicit_bg_of(raw_tag) == IF raw_tag \in {OpenCBg, OpenDBg} THEN Some(BgR) ELSE None

\* C18: for a non-self-closing opening tag, on_tag_open pushes at most one
\* entry on top of the stack left by a pending block override: with the tag's
\* explicit background colour class if it has one, else the container map's
\* class for the tag name, else, if the tag has an opacity utility, the
\* background in effect before it; if none applies it pushes nothing.  The
\* entries below stay as they were.
C18_PushPrecedence ==
    [][(last'.kind = "on_tag_open" /\ ~last'.is_self_closing) =>
          LET n == Len(tracker.stack)
              n0 == IF IsSome(pending_block) THEN n + 1 ELSE n
              s1 == tracker'.stack
              raw == last'.raw_tag
              explicit == explicit_bg_of(raw)
              container == last'.tag_name = TagCard
              opacity == raw = OpenSOpacity
              parent_bg == IF IsSome(pending_block) THEN pending_block.val
                           ELSE current_bg(tracker)
          IN /\ Len(s1) \in {n0, n0 + 1}
             /\ SubSeq(s1, 1, n) = tracker.stack
             /\ Len(s1) = n0 + 1 <=> (IsSome(explicit) \/ container \/ opacity)
             /\ Len(s1) = n0 + 1 =>
                   /\ s1[n0 + 1].tag = last'.tag_name
                   /\ ~s1[n0 + 1].is_annotation
                   /\ s1[n0 + 1].bg_class =
                         IF IsSome(explicit) THEN explicit.val
                         ELSE IF container THEN BgCard
                         ELSE parent_bg]_vars

C18_Witness == last.kind = "on_tag_open" /\ last.raw_tag = OpenCBg /\ Len(tracker.stack) = 3 /\ tracker.stack[3].bg_class = BgR /\ tracker.stack[3].tag = TagCard /\ tracker.stack[2].is_annotation /\ tracker.stack[1].bg_class = DefaultBg

\* The entry is one a closing tag of the given name matches: by its tag or
\* by the block-annotation form of the name
entry_matches(entry, tag_name) ==
    entry.tag = tag_name \/ entry.tag = S_annotation_prefix \o tag_name

\* C19: on a closing tag, if the top entry matches exactly one entry is
\* popped; if the top entry does not match and a lower one does, the stack
\* becomes the entries strictly below the match nearest to the top.
C19_CloseTruncatesAtNearestMatch ==
    [][last'.kind = "on_tag_close" =>
          LET s == tracker.stack
              n == Len(s)
              T == last'.tag_name
              s1 == tracker'.stack
          IN /\ (n > 0 /\ entry_matches(s[n], T)) => s1 = SubSeq(s, 1, n - 1)
             /\ (n > 0 /\ ~entry_matches(s[n], T)) =>
                   \A k \in 1..(n - 1) :
                       (/\ entry_matches(s[k], T)
                        /\ \A j \in (k + 1)..n : ~entry_matches(s[j], T))
                       => s1 = SubSeq(s, 1, k - 1)]_vars

C19_Witness == last.kind = "on_tag_close" /\ last.tag_name = <<"d">> /\ constructs = 4 /\ ~nested /\ tracker.stack = <<>> /\ Len(regions) = 1 /\ regions[1].context_bg = BgK /\ regions[1].content = <<"o","p","a","c","i","t","y","-","5","0"," ","t","e","x","t","-","w">>    \* opacity-50 text-w

\* C20: a closing tag that matches no entry of the context stack leaves it
\* unchanged, one that matches no entry of the text-colour stack leaves that
\* unchanged, and in either case the pending block override and the two
\* pending annotation slots stay as they were; no closing tag makes either
\* stack deeper.
C20_UnmatchedCloseChangesNothing ==
    [][last'.kind = "on_tag_close" =>
          LET T == last'.tag_name
              context_match == \E k \in 1..Len(tracker.stack) :
                                  entry_matches(tracker.stack[k], T)
              color_match == \E k \in 1..Len(color_stack) : color_stack[k].tag = T
          IN /\ ~context_match => tracker'.stack = tracker.stack
             /\ ~color_match => color_stack' = color_stack
             /\ (~context_match \/ ~color_match) =>
                   /\ pending_block' = pending_block
                   /\ pending_context' = pending_context
                   /\ pending_ignore' = pending_ignore
             /\ Len(tracker'.stack) <= Len(tracker.stack)
             /\ Len(color_stack') <= Len(color_stack)]_vars

C20_Witness == last.kind = "on_tag_close" /\ last.tag_name = <<"b">> /\ Len(tracker.stack) = 1 /\ Len(color_stack) = 1 /\ IsSome(pending_block) /\ IsSome(pending_context)

\* C16: when extract_and_scan ends, its output has one entry per input file,
\* in the order of the files, each with its file's path and with the Regions
\* scan_file returns for that file's content alone.
C16_OneEntryPerFile ==
    engine.output.state /= "running" =>
        /\ engine.output.state = "collected"
        /\ Len(engine.output.entries) = Len(engine.files)
        /\ \A k \in 1..Len(engine.files) :
              /\ engine.output.entries[k].path = engine.files[k].path
              /\ scan_file(engine.files[k].content) =
                    [panic |-> FALSE, regions |-> engine.output.entries[k].regions]

\* C17: the visitors registered with scan_jsx receive the same events with
\* the same arguments, each event reaching them in registration order before
\* the next event is emitted: an earlier visitor has received what a later
\* one has, or exactly one event more; when scan_jsx has returned all have
\* received the same sequence, which ends with on_file_end.
C17_FanOutInRegistrationOrder ==
    LET vs == fanout.visitors IN
    /\ \A i, j \in 1..Len(vs) :
          i < j =>
             \/ vs[i].received = vs[j].received
             \/ /\ Len(vs[i].received) = Len(vs[j].received) + 1
                /\ SubSeq(vs[i].received, 1, Len(vs[j].received)) = vs[j].received
                /\ queue /= <<>> \/ vs[i].received[Len(vs[i].received)] = FileEndEvent
    /\ (vs /= <<>> /\ status = "returned") =>
          \A i \in 1..Len(vs) :
              /\ vs[i].received = vs[1].received
              /\ vs[i].received[Len(vs[i].received)] = FileEndEvent

C17_Witness == status = "returned" /\ Len(fanout.visitors) = 2 /\ fanout.visitors[1].kind = "RecordingVisitor" /\ fanout.visitors[2].kind = "ScanOrchestrator" /\ Len(fanout.visitors[2].received) = 5 /\ Len(fanout.visitors[1].state) = 4 /\ Len(fanout.visitors[2].state.class_extractor.regions) = 2


\* C21: the synthetic entry pushed for a pending block override carries the
\* cumulative opacity current at the push: it sits directly on the stack as
\* it was, with the annotated class, and when the tag pushes nothing of its
\* own the current background becomes the annotated class while the current
\* opacity stays exactly what it was.
C21_BlockEntryKeepsOpacity ==
    [][(last'.kind = "on_tag_open" /\ ~last'.is_self_closing /\ IsSome(pending_block)) =>
          LET n == Len(tracker.stack)
              s1 == tracker'.stack
          IN /\ Len(s1) > n
             /\ SubSeq(s1, 1, n) = tracker.stack
             /\ s1[n + 1].is_annotation
             /\ s1[n + 1].tag = S_annotation_prefix \o last'.tag_name
             /\ s1[n + 1].bg_class = pending_block.val
             /\ s1[n + 1].cumulative_opacity = current_opacity(tracker)
             /\ Len(s1) = n + 1 =>
                   /\ current_bg(tracker') = pending_block.val
                   /\ current_opacity(tracker') = current_opacity(tracker)]_vars

C21_Witness == last.kind = "on_tag_open" /\ last.raw_tag = OpenD /\ Len(tracker.stack) = 2 /\ tracker.stack[2].is_annotation /\ tracker.stack[2].bg_class = BgK /\ tracker.stack[2].cumulative_opacity = (Scale * 50) \div 100 /\ tracker.stack[1].cumulative_opacity = (Scale * 50) \div 100

\* The opacity multiplier of the tag that pushed the entry: in the documents
\* of nested containers only the opacity-50 tag pushes entries named s.
own_multiplier(entry) ==
    IF ~entry.is_annotation /\ entry.tag = <<"s">> THEN (Scale * 50) \div 100 ELSE Scale

\* C22: in every state each stack entry's cumulative opacity is that of the
\* entry directly below it (1.0 for the bottom entry) times the entry's own
\* opacity multiplier.
C22_CumulativeOpacityChain ==
    \A k \in 1..Len(tracker.stack) :
        tracker.stack[k].cumulative_opacity =
            (((IF k = 1 THEN Scale ELSE tracker.stack[k - 1].cumulative_opacity)
              * own_multiplier(tracker.stack[k])) \div Scale)

C22_Witness == last.kind = "on_tag_close" /\ Len(tracker.stack) = 2 /\ tracker.stack[2].cumulative_opacity = (Scale * 25) \div 100 /\ tracker.stack[1].cumulative_opacity = (Scale * 50) \div 100

\* C23: every opacity utility the parser accepts yields a value within 0.0
\* to 1.0, so the cumulative opacity of every stack entry stays within 0.0
\* to 1.0.
C23_OpacityWithinUnit ==
    \A k \in 1..Len(tracker.stack) :
        /\ tracker.stack[k].cumulative_opacity >= 0
        /\ tracker.stack[k].cumulative_opacity <= Scale

\* C24: the Region of a class-attribute event carries the context override of
\* the latest valid @a11y-context comment since the previous class-attribute
\* event (none if there was none) and the reason of the latest a11y-ignore
\* comment in that interval; a newer annotation replaces an unconsumed older
\* one whole, and an @a11y-context comment without bg: or fg: changes nothing.
C24_LatestAnnotationWins ==
    [][ClassAttributeStep =>
          LET r == regions'[Len(regions')]
              o == since.override
          IN /\ Appended
             /\ r.context_override_bg = (IF IsSome(o) THEN o.val.bg ELSE None)
             /\ r.context_override_fg = (IF IsSome(o) THEN o.val.fg ELSE None)
             /\ r.context_override_no_inherit
                    = (IF IsSome(o) /\ o.val.no_inherit THEN Some(TRUE) ELSE None)
             /\ IsSome(since.reason) =>
                    /\ r.ignored = Some(TRUE)
                    /\ r.ignore_reason = Some(IF since.reason.val = <<>> THEN S_suppressed
                                              ELSE since.reason.val)
             /\ (IsNone(since.reason) /\ ~next_is_disabled) =>
                    (IsNone(r.ignored) /\ IsNone(r.ignore_reason))
             /\ IsNone(pending_context') /\ IsNone(pending_ignore')]_vars
C24_Witness == last.kind = "on_class_attribute" /\ since.replaced /\ constructs = 4 /\ Len(regions) = 1 /\ regions[1].context_override_fg = Some(<<"t","e","x","t","-","w">>) /\ IsNone(regions[1].context_override_bg) /\ IsNone(regions[1].context_override_no_inherit) /\ IsNone(regions[1].ignore_reason)

\* The content the scanner hands to on_comment for the comment chunk
comment_text(chunk) == ScanOf[chunk].events[1].text
\* The step dispatched the comment chunk
CommentStep(chunk) == last'.kind = "on_comment" /\ last'.text = comment_text(chunk)

\* C25: an @a11y-context-block comment changes nothing but the context
\* tracker's pending block override; an @a11y-context comment nothing but the
\* pending context override; an a11y-ignore comment nothing but the pending
\* suppression.
C25_CommentOwnership ==
    [][/\ CommentStep(BlockComment) =>
              /\ orch' = [orch EXCEPT !.context_tracker.pending_block_override
                                          = pending_block']
              /\ pending_block' = Some(BgK)
       /\ (CommentStep(ContextComment) \/ CommentStep(InvalidContextComment)) =>
              orch' = [orch EXCEPT !.annotation_parser.pending_context = pending_context']
       /\ (CommentStep(IgnoreReasonComment) \/ CommentStep(IgnoreComment)) =>
              /\ orch' = [orch EXCEPT !.annotation_parser.pending_ignore = pending_ignore']
              /\ IsSome(pending_ignore')]_vars
C25_Witness == last.kind = "on_comment" /\ last.text = comment_text(BlockComment) /\ pending_block = Some(BgK) /\ IsSome(pending_context) /\ IsSome(pending_ignore) /\ constructs = 3

\* C26: a pending context override always has a background or a foreground,
\* and so does every Region whose context_override_no_inherit is set.
C26_OverrideHasBgOrFg ==
    /\ IsSome(pending_context) =>
           (IsSome(pending_context.val.bg) \/ IsSome(pending_context.val.fg))
    /\ \A k \in 1..Len(regions) :
           IsSome(regions[k].context_override_no_inherit) =>
               \/ IsSome(regions[k].context_override_bg)
               \/ IsSome(regions[k].context_override_fg)
C26_Witness == last.kind = "on_comment" /\ last.text = comment_text(InvalidContextComment) /\ Len(regions) = 1 /\ regions[1].context_override_no_inherit = Some(TRUE) /\ regions[1].context_override_bg = Some(BgO) /\ pending_context = Some([bg |-> Some(BgO), fg |-> None, no_inherit |-> TRUE])

\* C27: a tag-open event, self-closing or not, and a tag-close event leave
\* the pending context override and the pending suppression as they were;
\* the class-attribute event that comes next, after any number of tags,
\* gives them to its Region.
C27_TagsLeaveAnnotationsPending ==
    [][/\ last'.kind \in {"on_tag_open", "on_tag_close"} =>
              /\ pending_context' = pending_context
              /\ pending_ignore' = pending_ignore
       /\ ClassAttributeStep =>
              LET r == regions'[Len(regions')] IN
              /\ Appended
              /\ IsSome(since.override) =>
                     /\ pending_context = since.override
                     /\ r.context_override_bg = pending_context.val.bg
                     /\ r.context_override_fg = pending_context.val.fg
              /\ IsSome(since.reason) =>
                     /\ pending_ignore = since.reason
                     /\ r.ignored = Some(TRUE)]_vars
C27_Witness == last.kind = "on_class_attribute" /\ last.raw_tag = OpenDBg /\ since.carried /\ constructs = 4 /\ Len(elems) = 2 /\ Len(regions) = 1 /\ regions[1].context_override_bg = Some(BgO) /\ regions[1].ignore_reason = Some(ReasonR)

\* The background captured at the last tag open, if no className took it
captured_bg == orch.pre_tag_open_bg

\* C28: the first className of a tag takes the captured background and
\* leaves none; a second className on the same tag and a standalone call get
\* the tracker's current background, which on a tag that established a
\* background is that background; a standalone call leaves the capture as
\* it was.
C28_CaptureIsOneShot ==
    [][ClassAttributeStep =>
          LET r == regions'[Len(regions')] IN
          /\ Appended
          /\ last'.first => (captured_bg = Some(r.context_bg) /\ IsNone(captured_bg'))
          /\ ~last'.first => r.context_bg = current_bg(tracker)
          /\ (~last'.first /\ last'.raw_tag /= <<>>) => IsNone(captured_bg)
          /\ (~last'.first /\ last'.raw_tag = OpenDTwice) => r.context_bg = BgR
          /\ last'.raw_tag = <<>> => captured_bg' = captured_bg]_vars
C28_Witness == last.kind = "on_class_attribute" /\ ~last.first /\ last.raw_tag = OpenDTwice /\ Len(regions) = 3 /\ regions[1].context_bg = BgK /\ IsNone(regions[1].context_override_bg) /\ regions[2].context_bg = BgK /\ regions[3].context_bg = BgR /\ Len(tracker.stack) = 2

\* C29: the events of one iteration of the scanner reach the visitor in the
\* order emitted, before the cursor moves again, and the cursor never moves
\* back; an opening tag's iteration emits on_tag_open, then only the tag's
\* class-attribute events, each with the tag's raw text, in source order,
\* and leaves the cursor at the end of that raw text, so that nothing inside
\* the tag's span is scanned as a comment, a tag or a standalone call.
C29_EventsInSourceOrder ==
    [][/\ pos' >= pos
       /\ queue' /= queue =>
              IF queue = <<>> THEN pos' > pos ELSE (queue' = Tail(queue) /\ pos' = pos)
       /\ (queue = <<>> /\ queue' /= <<>>) =>
              LET head == queue'[1] IN
              /\ \A k \in 2..Len(queue') :
                     /\ head.kind = "on_tag_open"
                     /\ queue'[k].kind = "on_class_attribute"
                     /\ queue'[k].raw_tag = head.raw_tag
                     /\ k > 2 => queue'[k - 1].line <= queue'[k].line
              /\ head.kind = "on_tag_open" => head.raw_tag = Slice(source, pos, pos')
              /\ head.kind = "on_class_attribute" => head.raw_tag = <<>>
       /\ (status' = "returned" /\ source = EmbeddedTag) => regions' = <<>>]_vars
C29_Witness == status = "returned" /\ source = EmbeddedTag \o TwoClassTag /\ Len(regions) = 2 /\ regions[1].content = <<"a">> /\ regions[1].start_line = 1 /\ regions[2].content = BgR /\ regions[2].start_line = 2

\* C30: from every offset of every text, is_self_closing_tag answers true
\* exactly when find_tag_close leaves by its "/>" return, at the offset just
\* past that "/>"; it answers false when find_tag_close leaves at a bare ">"
\* and when find_tag_close runs to the end of the text and returns its length.
C30_SelfClosingAgreesWithTagClose ==
    tag_scan.stop /= "none" =>
        LET r == tag_scan.tag_close
            from_pos == tag_scan.from_pos
        IN /\ tag_scan.is_self_closing = (tag_scan.stop = "/>")
           /\ tag_scan.stop = "/>" =>
                  /\ from_pos + 2 <= r /\ r <= Len(source)
                  /\ Slice(source, r - 2, r) = <<"/", ">">>
           /\ tag_scan.stop = ">" =>
                  /\ from_pos + 1 <= r /\ r <= Len(source)
                  /\ At(source, r - 1) = ">"
                  /\ ~tag_scan.is_self_closing
           /\ tag_scan.stop = "len" => (r = Len(source) /\ ~tag_scan.is_self_closing)
C30_Witness == source = <<"{", ">", "}", "/", ">">> /\ tag_scan.from_pos = 0 /\ tag_scan.stop = "/>" /\ tag_scan.is_self_closing /\ tag_scan.tag_close = 5

\* ------------------------------------------------------------------ more whole texts

\* The texts of at most MaxPieces of the pieces
TextsOf(pieces) == {Concat(ps) : ps \in UNION {[1..n -> pieces] : n \in 0..MaxPieces}}

\* scan_file called on one of the texts
InitWhole(texts) ==
    /\ orch = ScanOrchestrator_new
    /\ queue = <<>>
    /\ constructs = 0
    /\ last = NoEvent
    /\ elems = <<>>
    /\ nested = TRUE
    /\ since = NoAnnotation
    /\ source \in texts
    /\ pos = 0
    /\ status = "scanning"
    /\ engine = NoEngine
    /\ fanout = NoFanout
    /\ tag_scan = NoTagScan
    /\ disabled_check = NoDisabledCheck

\* The step is an iteration of scan_jsx's main loop
IterationStep == status = "scanning" /\ queue = <<>> /\ status' = "scanning" /\ pos' /= pos

\* Texts of standalone builder calls
NestedCall == <<"c","l","s","x","(","f","(","\"",")","\"",")",")">>    \* clsx(f(")"))
OpenCall == <<"c","v","a","(">>    \* cva(
CallPieces ==
    {SelfClosingClass, CloseD, LineComment, OpenComment, StandaloneCn, NestedCall, OpenCall,
     <<"a">>, <<")">>}

\* scan_file over texts of standalone builder calls
SpecCalls == InitWhole(TextsOf(CallPieces)) /\ [][NextScan]_vars

\* The offset of the parenthesis that closes the one before offset j, none
\* if there is none: depth counts the parentheses open, q is the quote of
\* the literal that j is in, esc says that the byte at j is escaped
RECURSIVE closing_paren(_, _, _, _, _)
closing_paren(text, j, depth, q, esc) ==
    LET ch == At(text, j) IN
    IF j >= Len(text) THEN None
    ELSE IF q /= "" /\ esc THEN closing_paren(text, j + 1, depth, q, FALSE)
    ELSE IF q /= "" /\ ch = "\\" THEN closing_paren(text, j + 1, depth, q, TRUE)
    ELSE IF q /= "" THEN closing_paren(text, j + 1, depth, IF ch = q THEN "" ELSE q, FALSE)
    ELSE IF ch \in {"\"", "'", BQ} THEN closing_paren(text, j + 1, depth, ch, FALSE)
    ELSE IF ch = "(" THEN closing_paren(text, j + 1, depth + 1, "", FALSE)
    ELSE IF ch = ")" /\ depth = 1 THEN Some(j)
    ELSE IF ch = ")" THEN closing_paren(text, j + 1, depth - 1, "", FALSE)
    ELSE closing_paren(text, j + 1, depth, "", FALSE)

\* The offset of the opening parenthesis of a builder call that starts at
\* offset p after a byte that is not an identifier byte, none otherwise
call_at(text, p) ==
    IF p > 0 /\ (At(text, p - 1) \in Lower \cup Upper \cup Digit \cup {"_"}) THEN None
    ELSE IF p + 3 <= Len(text) /\ Slice(text, p, p + 3) = <<"c","n","(">> THEN Some(p + 2)
    ELSE IF p + 5 <= Len(text) /\ Slice(text, p, p + 5) = <<"c","l","s","x","(">> THEN Some(p + 4)
    ELSE IF p + 4 <= Len(text) /\ Slice(text, p, p + 4) = <<"c","v","a","(">> THEN Some(p + 3)
    ELSE None

\* C31: an iteration of the scanner at a cn(, clsx( or cva( call that no
\* identifier byte precedes emits one class-attribute event with an empty
\* raw tag, whose value is the text up to the matching closing parenthesis,
\* parentheses inside literals not counted, and resumes just after that
\* parenthesis; when the parentheses do not balance it emits nothing and
\* resumes at the next byte.
C31_StandaloneCall ==
    [][(IterationStep /\ IsSome(call_at(source, pos))) =>
          LET open == call_at(source, pos).val
              close == closing_paren(source, open + 1, 1, "", FALSE)
          IN IF IsSome(close)
             THEN /\ Len(queue') = 1
                  /\ queue'[1].kind = "on_class_attribute"
                  /\ queue'[1].raw_tag = <<>>
                  /\ queue'[1].text = Slice(source, open + 1, close.val)
                  /\ pos' = close.val + 1
             ELSE queue' = <<>> /\ pos' = pos + 1]_vars
C31_Witness == status = "returned" /\ source = OpenCall \o NestedCall /\ Len(regions) = 1 /\ regions[1].content = <<"f","(","\"",")","\"",")">>    \* f(")")

\* Texts of className= keys in and around string literals
QuotedOutside == <<"\"","c","l","a","s","s","N","a","m","e","=","'","x","'","\"">>    \* "className='x'"
QuotedInside == <<"<","d"," ","t","=","'","c","l","a","s","s","N","a","m","e","=","\"","x","\"","'",">">>    \* <d t='className="x"'>
SpilledQuote == <<"<","d"," ","t","=","'","c","l","a","s","s","N","a","m","e","=","\"","'",">","x","\"">>    \* <d t='className="'>x"
SpilledCall == <<"<","d"," ","c","l","a","s","s","N","a","m","e","=","{","c","n","(","}",">","x",")">>    \* <d className={cn(}>x)
AttributePieces ==
    {SelfClosingClass, CloseD, LineComment, OpenComment, QuotedOutside, QuotedInside,
     SpilledQuote, SpilledCall}

\* scan_file over texts of className= keys in and around string literals
SpecAttributes == InitWhole(TextsOf(AttributePieces)) /\ [][NextScan]_vars

\* The number of className= keys of the text, from offset j on, that stand
\* outside every quoted string literal: q is the quote of the literal that
\* j is in, esc says that the byte at j is escaped
RECURSIVE unquoted_keys(_, _, _, _)
unquoted_keys(text, j, q, esc) ==
    LET ch == At(text, j) IN
    IF j >= Len(text) THEN 0
    ELSE IF q /= "" /\ esc THEN unquoted_keys(text, j + 1, q, FALSE)
    ELSE IF q /= "" /\ ch = "\\" THEN unquoted_keys(text, j + 1, q, TRUE)
    ELSE IF q /= "" THEN unquoted_keys(text, j + 1, IF ch = q THEN "" ELSE q, FALSE)
    ELSE IF ch \in {"\"", "'"} THEN unquoted_keys(text, j + 1, ch, FALSE)
    ELSE (IF j + 10 <= Len(text) /\ Slice(text, j, j + 10) = <<"c","l","a","s","s","N","a","m","e","=">> THEN 1 ELSE 0)
         + unquoted_keys(text, j + 1, "", FALSE)

\* C32: the scanner emits no class-attribute event for a className= that
\* lies inside a quoted string literal: an iteration at a string literal
\* outside a tag emits nothing, and an opening tag's iteration emits at most
\* one class-attribute event for each className= of the tag that stands
\* outside the tag's string literals.
C32_NoMatchInsideString ==
    [][IterationStep =>
          /\ At(source, pos) \in {"\"", "'"} => queue' = <<>>
          /\ (queue' /= <<>> /\ queue'[1].kind = "on_tag_open") =>
                 Len(queue') - 1 <= unquoted_keys(queue'[1].raw_tag, 0, "", FALSE)]_vars

\* C33: each class-attribute event of an opening tag takes its value from
\* within the tag: the value starts after the tag name and ends no later
\* than the offset at which the tag's raw text ends.
C33_ValueWithinTag ==
    [][(IterationStep /\ queue' /= <<>> /\ queue'[1].kind = "on_tag_open") =>
          LET name_end == read_tag_name(source, pos + 1).end
              ends == class_value_ends(source, name_end, pos')
          IN /\ Len(ends) = Len(queue') - 1
             /\ \A k \in 1..Len(ends) : name_end < ends[k] - 1 /\ ends[k] - 1 <= pos']_vars

\* 1 plus the number of newline bytes of the text strictly before the offset
line_of(text, offset) == 1 + Cardinality({k \in 1..offset : text[k] = "\n"})

\* The offsets of the className= keys of the text from offset j up to end
RECURSIVE key_offsets(_, _, _)
key_offsets(text, j, end) ==
    IF j + 10 > end THEN <<>>
    ELSE (IF Slice(text, j, j + 10) = <<"c","l","a","s","s","N","a","m","e","=">> THEN <<j>> ELSE <<>>)
         \o key_offsets(text, j + 1, end)

\* C34: line_at_offset over build_line_offsets is 1 plus the number of
\* newlines strictly before the offset, at every offset of the source; a
\* comment event and a standalone call's event carry the line of the first
\* byte of the comment or call, and each class-attribute event of a tag
\* carries the line of its own className= key.
C34_LineNumbers ==
    [][IterationStep =>
          /\ \A o \in 0..Len(source) :
                 line_at_offset(build_line_offsets(source), o) = line_of(source, o)
          /\ (queue' /= <<>> /\ queue'[1].kind \in {"on_comment", "on_class_attribute"})
                 => queue'[1].line = line_of(source, pos)
          /\ (queue' /= <<>> /\ queue'[1].kind = "on_tag_open") =>
                 LET keys == key_offsets(source, pos, pos') IN
                 Len(keys) = Len(queue') - 1 =>
                     \A k \in 1..Len(keys) : queue'[k + 1].line = line_of(source, keys[k])]_vars
C34_Witness == status = "returned" /\ source = NL \o TwoClassTag /\ Len(regions) = 2 /\ regions[1].start_line = 2 /\ regions[2].start_line = 3

\* ------------------------------------------------------------------ one raw tag

\* Bound of the model: the number of attributes of the tag.
MaxAttrs == 2

\* Attributes that say the element is disabled
TrueForms ==
    {<<" ","d","i","s","a","b","l","e","d">>, <<" ","d","i","s","a","b","l","e","d","\r","\n">>, <<" ","d","i","s","a","b","l","e","d","=","{","v","}">>, <<" ","a","r","i","a","-","d","i","s","a","b","l","e","d","=","\"","t","r","u","e","\"">>,
     <<" ","a","r","i","a","-","d","i","s","a","b","l","e","d","=","{","t","r","u","e","}">>, <<" ","a","r","i","a","-","d","i","s","a","b","l","e","d","=","{","\"","t","r","u","e","\"","}">>}
\* Attributes that say it is not
FalseForms ==
    {<<" ","d","i","s","a","b","l","e","d","=","{","f","a","l","s","e","}">>, <<" ","a","r","i","a","-","d","i","s","a","b","l","e","d","=","\"","f","a","l","s","e","\"">>, <<" ","a","r","i","a","-","d","i","s","a","b","l","e","d","=","{","f","a","l","s","e","}">>}
\* Class attributes whose value holds the word disabled
ClassForms ==
    {<<" ","c","l","a","s","s","N","a","m","e","=","\"","t","e","x","t","-","d","i","s","a","b","l","e","d","\"">>, <<" ","c","l","a","s","s","N","a","m","e","=","\"","d","i","s","a","b","l","e","d"," ","x","\"">>,
     <<" ","c","l","a","s","s","N","a","m","e","=","\"","x"," ","d","i","s","a","b","l","e","d","\"">>, <<" ","c","l","a","s","s","N","a","m","e","=","\"","a"," ","d","i","s","a","b","l","e","d"," ","b","\"">>,
     <<" ","c","l","a","s","s","N","a","m","e","=","\"","a","r","i","a","-","d","i","s","a","b","l","e","d",":","x","\"">>}

AttrLists == UNION {[1..n -> TrueForms \cup FalseForms \cup ClassForms] : n \in 0..MaxAttrs}

InitDisabled ==
    /\ orch = ScanOrchestrator_new
    /\ queue = <<>>
    /\ constructs = 0
    /\ last = NoEvent
    /\ elems = <<>>
    /\ nested = TRUE
    /\ since = NoAnnotation
    /\ source = <<>>
    /\ pos = 0
    /\ status = "scanning"
    /\ engine = NoEngine
    /\ fanout = NoFanout
    /\ tag_scan = NoTagScan
    /\ \E attrs \in AttrLists :
           disabled_check = [attrs |-> attrs, raw_tag |-> <<"<","b">> \o Concat(attrs) \o <<">">>,
                             checked |-> FALSE, is_disabled |-> FALSE]

\* is_disabled_tag(raw_tag)
CheckDisabled ==
    /\ ~disabled_check.checked
    /\ disabled_check' = [disabled_check EXCEPT !.checked = TRUE,
                             !.is_disabled = is_disabled_tag(disabled_check.raw_tag)]
    /\ UNCHANGED <<orch, queue, history, whole_text, engine, fanout, tag_scan>>

NextDisabled == CheckDisabled

\* is_disabled_tag over the raw tags of at most MaxAttrs attributes
SpecDisabled == InitDisabled /\ [][NextDisabled]_vars

\* C35: a tag whose only occurrences of the word disabled are inside its
\* class strings is reported as not disabled.
C35_ClassTextNeverDisables ==
    (/\ disabled_check.checked
     /\ disabled_check.attrs /= <<>>
     /\ \A k \in 1..Len(disabled_check.attrs) : disabled_check.attrs[k] \in ClassForms)
        => ~disabled_check.is_disabled

\* C36: a tag that has a bare disabled, a disabled={non-false} or an
\* aria-disabled of value true is reported as disabled; a tag whose
\* attributes are only explicit false forms is reported as not disabled.
C36_DisabledForms ==
    disabled_check.checked =>
        /\ (\E k \in 1..Len(disabled_check.attrs) : disabled_check.attrs[k] \in TrueForms)
               => disabled_check.is_disabled
        /\ (/\ disabled_check.attrs /= <<>>
            /\ \A k \in 1..Len(disabled_check.attrs) : disabled_check.attrs[k] \in FalseForms)
               => ~disabled_check.is_disabled

\* C37: a Region gets the disabled-element reason only if the raw text of
\* its own tag says disabled or its own class text has a disabled: variant;
\* a class attribute of an element inside a disabled one, and a standalone
\* call, do not get it.
C37_DisabledNotInherited ==
    [][(ClassAttributeStep /\ regions'[Len(regions')].ignore_reason = Some(S_disabled_reason))
          => \/ last'.raw_tag = OpenBDisabled
             \/ last'.text = <<"d","i","s","a","b","l","e","d",":","o">>]_vars

\* C37 happens: inside the open disabled element a class attribute of a
\* child and a standalone call, neither with the disabled-element reason.
C37_Witness ==
    /\ Len(elems) = 2
    /\ elems[1].name = <<"b">>
    /\ elems[2].name = <<"d">>
    /\ Len(regions) = 3
    /\ regions[1].content = <<"t">>
    /\ regions[1].ignore_reason = Some(S_disabled_reason)
    /\ regions[2].content = BgR
    /\ regions[2].ignore_reason = None
    /\ regions[3].content = <<"\"","x","\"">>    \* "x"
    /\ regions[3].ignore_reason = None

\* The text color of the nearest open element that carries one
RECURSIVE enclosing_color(_)
enclosing_color(es) ==
    IF es = <<>> THEN None
    ELSE IF IsSome(es[Len(es)].color) THEN es[Len(es)].color
    ELSE enclosing_color(SubSeq(es, 1, Len(es) - 1))

\* C38: while the tags are properly nested, the inherited text color is that
\* of the nearest open element carrying a text-color utility, or none, and
\* the color stack holds one entry for each such open element.
C38_NearestOpenTextColor ==
    nested =>
        /\ current_color(orch.current_color) = enclosing_color(elems)
        /\ Len(color_stack) = Cardinality({k \in 1..Len(elems) : IsSome(elems[k].color)})

\* ------------------------------------------------------------------ template literals

PlainTemplate == <<"<","d"," ","c","l","a","s","s","N","a","m","e","=","{","BQ","a","BQ","}",">">>    \* <d className={`a`}>
TemplateTag == <<"<","i"," ","c","l","a","s","s","N","a","m","e","=","{","BQ","a"," ","$","{","b","}"," ","c","BQ","}","/",">">>    \* <i className={`a ${b} c`}/>
NestedTemplate == <<"<","d"," ","c","l","a","s","s","N","a","m","e","=","{","BQ","a"," ","$","{","f","(","BQ","$","{","b","}","BQ",")","}"," ","c","BQ","}",">">>    \* <d className={`a ${f(`${b}`)} c`}>
TemplatePieces == {PlainTemplate, TemplateTag, NestedTemplate, CloseD, LineComment, OpenComment}

\* scan_jsx over the texts of at most MaxPieces pieces, the class attributes
\* of the tags being template literals
SpecTemplates == InitWhole(TextsOf(TemplatePieces)) /\ [][NextScan]_vars

\* The static text of the template literal whose body starts at offset j:
\* nest holds what is open, "T" a template, "I" an interpolation or a brace
\* inside one; only the bytes of the outermost template are static text,
\* and each of its interpolations counts as one space.
RECURSIVE static_text(_, _, _)
static_text(text, j, nest) ==
    LET top == nest[Len(nest)]
        pop == SubSeq(nest, 1, Len(nest) - 1)
        outer == Len(nest) = 1
    IN IF j >= Len(text) \/ nest = <<>> THEN <<>>
       ELSE IF top = "T"
       THEN IF At(text, j) = BQ THEN static_text(text, j + 1, pop)
            ELSE IF j + 1 < Len(text) /\ At(text, j) = "$" /\ At(text, j + 1) = "{"
            THEN (IF outer THEN <<" ">> ELSE <<>>) \o static_text(text, j + 2, Append(nest, "I"))
            ELSE (IF outer THEN <<At(text, j)>> ELSE <<>>) \o static_text(text, j + 1, nest)
       ELSE IF At(text, j) = "{" THEN static_text(text, j + 1, Append(nest, "I"))
       ELSE IF At(text, j) = "}" THEN static_text(text, j + 1, pop)
       ELSE IF At(text, j) = BQ THEN static_text(text, j + 1, Append(nest, "T"))
       ELSE static_text(text, j + 1, nest)

\* C39: a tag whose class attributes are braced template literals gives one
\* class-attribute event for each, whose value is the template's static
\* text with each interpolation, nested templates included, as one space.
C39_TemplateStaticText ==
    [][(IterationStep /\ queue' /= <<>> /\ queue'[1].kind = "on_tag_open") =>
          LET keys == key_offsets(source, pos, pos') IN
          /\ Len(queue') = Len(keys) + 1
          /\ \A k \in 1..Len(keys) :
                 /\ queue'[k + 1].kind = "on_class_attribute"
                 /\ queue'[k + 1].text = static_text(source, keys[k] + 12, <<"T">>)]_vars

====
